---- MODULE Spec2Model ----
(***************************************************************************)
(* Model of the sensitive-data filter of mcp_ado_server                    *)
(* (src/src/mcp_ado_server/security.py).                                   *)
(*                                                                         *)
(* Python strings are sequences of one-character strings.  A Python value  *)
(* is a record tagged with its type name:                                  *)
(*   [t |-> "str",  v |-> <<chars>>]      [t |-> "int", v |-> n]           *)
(*   [t |-> "NoneType"]                   [t |-> "object", v |-> id]       *)
(*   [t |-> "list", v |-> <<values>>]                                      *)
(*   [t |-> "dict", v |-> <<[k |-> chars, v |-> value], ...>>]             *)
(* A dict keeps its items in insertion order, with distinct keys.          *)
(***************************************************************************)
EXTENDS Integers, Sequences, FiniteSets, TLC

VARIABLES pc, fn, args, ret, log, requests, uuids, client,
          services, tools, inits, http_clients, held, closing, heap, tasks

vars == <<pc, fn, args, ret, log, requests, uuids, client,
          services, tools, inits, http_clients, held, closing, heap, tasks>>

\* The module globals of fastmcp_server and the tool calls in flight.
toolVars == <<services, tools, inits>>

\* The HTTP clients one AzureDevOpsClient has created, and the one it holds.
lifecycleVars == <<http_clients, held, closing>>

\* The objects that invocations sharing an input work on.
sharedVars == <<heap, tasks>>

----------------------------------------------------------------------------
(* Characters and string helpers (Python built-ins).                       *)

UpperSeq ==
  <<"A","B","C","D","E","F","G","H","I","J","K","L","M",
    "N","O","P","Q","R","S","T","U","V","W","X","Y","Z">>

LowerSeq ==
  <<"a","b","c","d","e","f","g","h","i","j","k","l","m",
    "n","o","p","q","r","s","t","u","v","w","x","y","z">>

DigitSeq == <<"0","1","2","3","4","5","6","7","8","9">>

Range(s) == { s[i] : i \in DOMAIN s }

\* str.lower() on one character
lower_char(c) ==
  IF \E i \in DOMAIN UpperSeq : UpperSeq[i] = c
    THEN LowerSeq[CHOOSE i \in DOMAIN UpperSeq : UpperSeq[i] = c]
    ELSE c

\* str.lower()
lower(s) == [i \in DOMAIN s |-> lower_char(s[i])]

\* str.replace(c, ""): every occurrence of the character c removed
RECURSIVE replace_empty(_, _)
replace_empty(s, c) ==
  IF s = <<>> THEN <<>>
  ELSE IF Head(s) = c THEN replace_empty(Tail(s), c)
  ELSE <<Head(s)>> \o replace_empty(Tail(s), c)

\* `pattern in s` for strings: pattern occurs as a contiguous substring
str_in(pattern, s) ==
  \E i \in 0..(Len(s) - Len(pattern)) :
    \A j \in 1..Len(pattern) : s[i + j] = pattern[j]

\* isinstance(value, <type>)
isinstance(value, type) == value.t = type

None == [t |-> "NoneType"]

Str(s) == [t |-> "str", v |-> s]

----------------------------------------------------------------------------
(* SecurityFilter: static tables.                                          *)

SENSITIVE_PATTERNS ==
  << <<"p","a","s","s","w","o","r","d">>,
     <<"s","e","c","r","e","t">>,
     <<"t","o","k","e","n">>,
     <<"a","p","i","k","e","y">>,
     <<"a","p","i","_","k","e","y">>,
     <<"a","c","c","e","s","s","k","e","y">>,
     <<"a","c","c","e","s","s","_","k","e","y">>,
     <<"s","e","c","r","e","t","k","e","y">>,
     <<"s","e","c","r","e","t","_","k","e","y">>,
     <<"c","r","e","d","e","n","t","i","a","l">>,
     <<"a","u","t","h">>,
     <<"b","e","a","r","e","r">>,
     <<"a","u","t","h","o","r","i","z","a","t","i","o","n">>,
     <<"p","a","t">>,
     <<"c","l","i","e","n","t","_","s","e","c","r","e","t">>,
     <<"c","l","i","e","n","t","_","i","d">>,
     <<"t","e","n","a","n","t","_","i","d">> >>

\* A variant without the short terms "auth" and "pat".
substring_patterns_narrow ==
  << <<"p","a","s","s","w","o","r","d">>,
     <<"s","e","c","r","e","t">>,
     <<"t","o","k","e","n">>,
     <<"c","r","e","d","e","n","t","i","a","l">>,
     <<"b","e","a","r","e","r">>,
     <<"a","u","t","h","o","r","i","z","a","t","i","o","n">> >>

substring_patterns ==
  << <<"p","a","s","s","w","o","r","d">>,
     <<"s","e","c","r","e","t">>,
     <<"t","o","k","e","n">>,
     <<"c","r","e","d","e","n","t","i","a","l">>,
     <<"a","u","t","h">>,
     <<"b","e","a","r","e","r">>,
     <<"a","u","t","h","o","r","i","z","a","t","i","o","n">>,
     <<"p","a","t">> >>

api_key_patterns ==
  << <<"a","p","i","k","e","y">>,
     <<"a","c","c","e","s","s","k","e","y">>,
     <<"s","e","c","r","e","t","k","e","y">>,
     <<"c","l","i","e","n","t","s","e","c","r","e","t">>,
     <<"c","l","i","e","n","t","i","d">>,
     <<"t","e","n","a","n","t","i","d">> >>

----------------------------------------------------------------------------
(* SecurityFilter.is_sensitive_key                                         *)

\* A variant that matches every term exactly and none as a substring.
is_sensitive_key_exact_only(key) ==
  IF key = <<>> THEN FALSE
  ELSE
    LET key_lower == replace_empty(replace_empty(lower(key), "_"), "-")
    IN  \/ key_lower \in Range(SENSITIVE_PATTERNS)
        \/ key_lower \in Range(api_key_patterns)

is_sensitive_key(key) ==
  IF key = <<>> THEN FALSE
  ELSE
    LET key_lower == replace_empty(replace_empty(lower(key), "_"), "-")
    IN  IF key_lower \in Range(SENSITIVE_PATTERNS) THEN TRUE
        ELSE IF \E i \in DOMAIN substring_patterns :
                  str_in(substring_patterns[i], key_lower) THEN TRUE
        ELSE IF \E i \in DOMAIN api_key_patterns :
                  api_key_patterns[i] = key_lower THEN TRUE
        ELSE FALSE

----------------------------------------------------------------------------
(* Regular expressions (module re).  A compiled pattern is a sequence of   *)
(* atoms [cls, lo, hi]: between lo and hi characters of the set cls;       *)
(* hi = -1 is no upper limit.                                              *)

AlnumChars == Range(UpperSeq) \cup Range(LowerSeq) \cup Range(DigitSeq)

Base64Chars == AlnumChars \cup {"+", "/"}

WordChars == AlnumChars \cup {"_"}

HexChars ==
  Range(DigitSeq) \cup {"a","b","c","d","e","f","A","B","C","D","E","F"}

Atom(cls, lo, hi) == [cls |-> cls, lo |-> lo, hi |-> hi]

Lit(c) == Atom({c}, 1, 1)

\* The number of leading characters of s, from position j on, that are in cls.
run_length(s, j, cls) ==
  IF \A q \in j..Len(s) : s[q] \in cls THEN Len(s) - j + 1
  ELSE (CHOOSE q \in j..Len(s) :
          /\ s[q] \notin cls
          /\ \A r \in j..(q - 1) : s[r] \in cls) - j

\* Whether atoms i.. of pattern match exactly the text of s from position j
\* to its end.
RECURSIVE match_from(_, _, _, _)
match_from(pattern, i, s, j) ==
  IF i > Len(pattern) THEN j = Len(s) + 1
  ELSE
    LET a   == pattern[i]
        m   == run_length(s, j, a.cls)
        top == IF a.hi = -1 \/ m < a.hi THEN m ELSE a.hi
    IN  \E k \in a.lo..top : match_from(pattern, i + 1, s, j + k)

\* A variant of Pattern.fullmatch that behaves like Pattern.match: the
\* pattern has to match at the start and the text may go on after it.
RECURSIVE prefix_match_from(_, _, _, _)
prefix_match_from(pattern, i, s, j) ==
  IF i > Len(pattern) THEN TRUE
  ELSE
    LET a   == pattern[i]
        m   == run_length(s, j, a.cls)
        top == IF a.hi = -1 \/ m < a.hi THEN m ELSE a.hi
    IN  \E k \in a.lo..top : prefix_match_from(pattern, i + 1, s, j + k)

fullmatch_as_match(pattern, s) == prefix_match_from(pattern, 1, s, 1)

\* Pattern.fullmatch(s) is not None
fullmatch(pattern, s) == match_from(pattern, 1, s, 1)

SECRET_REGEXES ==
  << \* [A-Za-z0-9+/]{52}
     << Atom(Base64Chars, 52, 52) >>,
     \* gh[pousr]_[A-Za-z0-9_]{36,251}
     << Lit("g"), Lit("h"), Atom({"p","o","u","s","r"}, 1, 1), Lit("_"),
        Atom(WordChars, 36, 251) >>,
     \* [A-Za-z0-9]{20,}
     << Atom(AlnumChars, 20, -1) >>,
     \* [0-9a-fA-F]{8}-[0-9a-fA-F]{4}-[0-9a-fA-F]{4}-[0-9a-fA-F]{4}-[0-9a-fA-F]{12}
     << Atom(HexChars, 8, 8), Lit("-"), Atom(HexChars, 4, 4), Lit("-"),
        Atom(HexChars, 4, 4), Lit("-"), Atom(HexChars, 4, 4), Lit("-"),
        Atom(HexChars, 12, 12) >> >>

----------------------------------------------------------------------------
(* SecurityFilter.is_sensitive_value                                       *)

MinSecretLen == 10

is_sensitive_value(value) ==
  IF ~isinstance(value, "str") \/ Len(value.v) < MinSecretLen THEN FALSE
  ELSE \E i \in DOMAIN SECRET_REGEXES : fullmatch(SECRET_REGEXES[i], value.v)

----------------------------------------------------------------------------
(* SecurityFilter.filter_sensitive_dict                                    *)

\* An exception leaving a call.
Raise(exc) == [t |-> "raise", exc |-> exc]

Raised(r) == r.t = "raise"

Dict(items) == [t |-> "dict", v |-> items]

List(elems) == [t |-> "list", v |-> elems]

\* One key/value pair of a dict
Item(k, v) == [k |-> k, v |-> v]

FILTERED == Str(<<"[","F","I","L","T","E","R","E","D","]">>)

RECURSIVE filter_sensitive_dict(_, _, _)

\* A variant that keeps only the dict items of the list.
filter_list_dicts_only(value, replacement, deep_scan) ==
  LET dicts == SelectSeq(value.v, LAMBDA item : isinstance(item, "dict"))
  IN  [i \in DOMAIN dicts |->
         filter_sensitive_dict(dicts[i], replacement, deep_scan)]

\* A variant that extends the result with the items of a nested list
\* instead of appending the nested list.
RECURSIVE extend_from(_, _, _, _)
extend_from(items, i, replacement, deep_scan) ==
  IF i > Len(items) THEN <<>>
  ELSE (IF isinstance(items[i], "dict")
          THEN <<filter_sensitive_dict(items[i], replacement, deep_scan)>>
        ELSE IF isinstance(items[i], "list") THEN items[i].v
        ELSE <<items[i]>>)
       \o extend_from(items, i + 1, replacement, deep_scan)

filter_list_extend(value, replacement, deep_scan) ==
  extend_from(value.v, 1, replacement, deep_scan)

\* The list comprehension of lines 108-112: dict items filtered, the other
\* items as they are.
filter_list(value, replacement, deep_scan) ==
  [i \in DOMAIN value.v |->
     IF isinstance(value.v[i], "dict")
       THEN filter_sensitive_dict(value.v[i], replacement, deep_scan)
       ELSE value.v[i]]

\* A variant that leaves a None under a sensitive key as it is.
filtered_value_keep_none(key, value, replacement, deep_scan) ==
  IF is_sensitive_key(key) /\ value # None THEN replacement
  ELSE IF isinstance(value, "dict") /\ deep_scan
    THEN filter_sensitive_dict(value, replacement, deep_scan)
  ELSE IF isinstance(value, "list") /\ deep_scan
    THEN List(filter_list(value, replacement, deep_scan))
  ELSE IF isinstance(value, "str") /\ deep_scan /\ is_sensitive_value(value)
    THEN replacement
  ELSE value

\* A variant that checks the shape of a string whatever deep_scan is.
filtered_value_always_by_value(key, value, replacement, deep_scan) ==
  IF is_sensitive_key(key) THEN replacement
  ELSE IF isinstance(value, "dict") /\ deep_scan
    THEN filter_sensitive_dict(value, replacement, deep_scan)
  ELSE IF isinstance(value, "list") /\ deep_scan
    THEN List(filter_list(value, replacement, deep_scan))
  ELSE IF isinstance(value, "str") /\ is_sensitive_value(value)
    THEN replacement
  ELSE value

\* One turn of the loop of lines 99-117: the value stored under key.
filtered_value(key, value, replacement, deep_scan) ==
  IF is_sensitive_key(key) THEN replacement
  ELSE IF isinstance(value, "dict") /\ deep_scan
    THEN filter_sensitive_dict(value, replacement, deep_scan)
  ELSE IF isinstance(value, "list") /\ deep_scan
    THEN LET items == filter_list(value, replacement, deep_scan)
         IN  IF \E i \in DOMAIN items : Raised(items[i])
               THEN items[CHOOSE i \in DOMAIN items :
                            /\ Raised(items[i])
                            /\ \A j \in 1..(i - 1) : ~Raised(items[j])]
               ELSE List(items)
  ELSE IF isinstance(value, "str") /\ deep_scan /\ is_sensitive_value(value)
    THEN replacement
  ELSE value

\* A variant that skips the items whose value is None.
filter_items_skip_none(data, replacement, deep_scan) ==
  LET kept == SelectSeq(data.v, LAMBDA item : item.v # None)
  IN  Dict([i \in DOMAIN kept |->
              [k |-> kept[i].k,
               v |-> filtered_value(kept[i].k, kept[i].v,
                                    replacement, deep_scan)]])

\* The loop over data.items() (lines 98-119); data.items() of a value that
\* is no dict raises AttributeError.
filter_items(data, replacement, deep_scan) ==
  IF ~isinstance(data, "dict") THEN Raise("AttributeError")
  ELSE
    LET filtered ==
          [i \in DOMAIN data.v |->
             [k |-> data.v[i].k,
              v |-> filtered_value(data.v[i].k, data.v[i].v,
                                   replacement, deep_scan)]]
    IN  IF \E i \in DOMAIN filtered : Raised(filtered[i].v)
          THEN filtered[CHOOSE i \in DOMAIN filtered :
                          /\ Raised(filtered[i].v)
                          /\ \A j \in 1..(i - 1) : ~Raised(filtered[j].v)].v
          ELSE Dict(filtered)

\* A variant without the isinstance guard of line 95.
filter_sensitive_dict_unguarded(data, replacement, deep_scan) ==
  filter_items(data, replacement, deep_scan)

filter_sensitive_dict(data, replacement, deep_scan) ==
  IF ~isinstance(data, "dict") THEN data
  ELSE filter_items(data, replacement, deep_scan)

----------------------------------------------------------------------------
(* str(), repr(), truth value and string methods of Python values.         *)

\* str.join
RECURSIVE join(_, _)
join(parts, sep) ==
  IF parts = <<>> THEN <<>>
  ELSE IF Len(parts) = 1 THEN parts[1]
  ELSE parts[1] \o sep \o join(Tail(parts), sep)

\* The index of the first c in s, 0 when there is none (str.find + 1).
find(s, c) ==
  IF \E i \in DOMAIN s : s[i] = c
    THEN CHOOSE i \in DOMAIN s : s[i] = c /\ \A j \in 1..(i - 1) : s[j] # c
    ELSE 0

\* s.split(c, 1)
split_once(s, c) ==
  IF find(s, c) = 0 THEN <<s>>
  ELSE <<SubSeq(s, 1, find(s, c) - 1), SubSeq(s, find(s, c) + 1, Len(s))>>

\* s.split(c)
RECURSIVE split(_, _)
split(s, c) ==
  IF find(s, c) = 0 THEN <<s>>
  ELSE <<SubSeq(s, 1, find(s, c) - 1)>>
         \o split(SubSeq(s, find(s, c) + 1, Len(s)), c)

\* str() of a non-negative int
RECURSIVE digits(_)
digits(n) ==
  IF n < 10 THEN <<DigitSeq[n + 1]>>
  ELSE digits(n \div 10) \o <<DigitSeq[(n % 10) + 1]>>

\* repr() of a str without control characters: in double quotes when it
\* holds a single quote and no double quote, else in single quotes with
\* backslash and single quote escaped.
RECURSIVE escaped(_)
escaped(s) ==
  IF s = <<>> THEN <<>>
  ELSE (IF Head(s) \in {"'", "\\"} THEN <<"\\", Head(s)>> ELSE <<Head(s)>>)
       \o escaped(Tail(s))

repr_str(s) ==
  IF (\E i \in DOMAIN s : s[i] = "'") /\ ~(\E i \in DOMAIN s : s[i] = "\"")
    THEN <<"\"">> \o s \o <<"\"">>
    ELSE <<"'">> \o escaped(s) \o <<"'">>

\* repr() of a value; of a dict and a list, the repr() of their items.
RECURSIVE py_repr(_)
py_repr(value) ==
  CASE value.t = "str" -> repr_str(value.v)
    [] value.t = "NoneType" -> <<"N","o","n","e">>
    [] value.t = "int" -> digits(value.v)
    [] value.t = "bool" -> IF value.v THEN <<"T","r","u","e">> ELSE <<"F","a","l","s","e">>
    [] value.t = "list" ->
         <<"[">> \o join([i \in DOMAIN value.v |-> py_repr(value.v[i])],
                         <<","," ">>) \o <<"]">>
    [] value.t = "dict" ->
         <<"{">> \o join([i \in DOMAIN value.v |->
                            repr_str(value.v[i].k) \o <<":"," ">>
                              \o py_repr(value.v[i].v)],
                         <<","," ">>) \o <<"}">>
    [] OTHER -> <<"<","o","b","j","e","c","t",">">>

\* str() of a value, as an f-string renders it
py_str(value) == IF value.t = "str" THEN value.v ELSE py_repr(value)

\* The truth value of a value (`if value:`).
truthy(value) ==
  CASE value.t = "NoneType" -> FALSE
    [] value.t = "bool" -> value.v
    [] value.t = "int" -> value.v # 0
    [] value.t \in {"str", "list", "dict"} -> value.v # <<>>
    [] OTHER -> TRUE

\* `c in value` for a one-character string c: "yes", "no", or the
\* exception raised for a value that is no container.
py_contains(value, c) ==
  CASE value.t = "str" -> IF find(value.v, c) # 0 THEN "yes" ELSE "no"
    [] value.t = "list" ->
         IF \E i \in DOMAIN value.v : value.v[i] = Str(<<c>>)
           THEN "yes" ELSE "no"
    [] value.t = "dict" ->
         IF \E i \in DOMAIN value.v : value.v[i].k = <<c>>
           THEN "yes" ELSE "no"
    [] OTHER -> "TypeError"

----------------------------------------------------------------------------
(* SecurityFilter.filter_url_params                                        *)

\* A variant that leaves a parameter with an empty value alone.
filtered_param_keep_empty(param, replacement) ==
  IF find(param, "=") # 0
    THEN LET key   == split_once(param, "=")[1]
             value == split_once(param, "=")[2]
         IN  IF value # <<>> /\ is_sensitive_key(key)
               THEN key \o <<"=">> \o py_str(replacement)
               ELSE param
    ELSE param

\* One parameter of the query string (lines 131-138).
filtered_param(param, replacement) ==
  IF find(param, "=") # 0
    THEN LET key == split_once(param, "=")[1]
         IN  IF is_sensitive_key(key)
               THEN key \o <<"=">> \o py_str(replacement)
               ELSE param
    ELSE param

filter_url_params(url, replacement) ==
  IF py_contains(url, "?") = "TypeError" THEN Raise("TypeError")
  ELSE IF py_contains(url, "?") = "no" THEN url
  ELSE IF ~isinstance(url, "str") THEN Raise("AttributeError")
  ELSE
    LET base_url     == split_once(url.v, "?")[1]
        query_string == split_once(url.v, "?")[2]
        parts        == split(query_string, "&")
        params       == [i \in DOMAIN parts |->
                           filtered_param(parts[i], replacement)]
    IN  Str(base_url \o <<"?">> \o join(params, <<"&">>))

----------------------------------------------------------------------------
(* SecurityFilter.sanitize_for_logging                                     *)

REDACTED == Str(<<"[","R","E","D","A","C","T","E","D","]">>)

\* dict[key] = value on a dict literal under construction
Set(d, key, value) == Dict(Append(d.v, Item(key, value)))

\* `key in d`
HasKey(d, key) == \E i \in DOMAIN d.v : d.v[i].k = key

\* d[key]
Get(d, key) == d.v[CHOOSE i \in DOMAIN d.v : d.v[i].k = key].v

\* A variant that stores the URL as it was given.
sanitize_for_logging_raw_url(method, url, params, headers, json_data) ==
  LET s1 == Dict(<<Item(<<"m","e","t","h","o","d">>, method), Item(<<"u","r","l">>, url)>>)
      s2 == IF truthy(params)
              THEN Set(s1, <<"p","a","r","a","m","s">>,
                       filter_sensitive_dict(params, FILTERED, TRUE))
              ELSE s1
      s3 == IF truthy(headers)
              THEN Set(s2, <<"h","e","a","d","e","r","s">>,
                       filter_sensitive_dict(headers, REDACTED, TRUE))
              ELSE s2
  IN  IF truthy(json_data)
        THEN Set(s3, <<"j","s","o","n","_","d","a","t","a">>,
                 filter_sensitive_dict(json_data, FILTERED, TRUE))
        ELSE s3

\* A variant that filters the headers with the default placeholder.
sanitize_for_logging_one_placeholder(method, url, params, headers, json_data) ==
  LET filtered_url == filter_url_params(url, FILTERED)
  IN  IF Raised(filtered_url) THEN filtered_url
      ELSE
        LET s1 == Dict(<<Item(<<"m","e","t","h","o","d">>, method), Item(<<"u","r","l">>, filtered_url)>>)
            s2 == IF truthy(params)
                    THEN Set(s1, <<"p","a","r","a","m","s">>,
                             filter_sensitive_dict(params, FILTERED, TRUE))
                    ELSE s1
            s3 == IF truthy(headers)
                    THEN Set(s2, <<"h","e","a","d","e","r","s">>,
                             filter_sensitive_dict(headers, FILTERED, TRUE))
                    ELSE s2
        IN  IF truthy(json_data)
              THEN Set(s3, <<"j","s","o","n","_","d","a","t","a">>,
                       filter_sensitive_dict(json_data, FILTERED, TRUE))
              ELSE s3

sanitize_for_logging(method, url, params, headers, json_data) ==
  LET filtered_url == filter_url_params(url, FILTERED)
  IN  IF Raised(filtered_url) THEN filtered_url
      ELSE
        LET s1 == Dict(<<Item(<<"m","e","t","h","o","d">>, method), Item(<<"u","r","l">>, filtered_url)>>)
            s2 == IF truthy(params)
                    THEN Set(s1, <<"p","a","r","a","m","s">>,
                             filter_sensitive_dict(params, FILTERED, TRUE))
                    ELSE s1
            s3 == IF truthy(headers)
                    THEN Set(s2, <<"h","e","a","d","e","r","s">>,
                             filter_sensitive_dict(headers, REDACTED, TRUE))
                    ELSE s2
        IN  IF truthy(json_data)
              THEN Set(s3, <<"j","s","o","n","_","d","a","t","a">>,
                       filter_sensitive_dict(json_data, FILTERED, TRUE))
              ELSE s3

----------------------------------------------------------------------------
(* SecureLogger.  A method gives [ret, emit]: what the call returns (None, *)
(* or the exception it raises) and the records it hands to the logger.     *)

Record(level, msg) == [level |-> level, msg |-> msg]

Done(records) == [ret |-> None, emit |-> records]

Fails(exc) == [ret |-> exc, emit |-> <<>>]

\* [f"{k}={v}" for k, v in d.items()], joined by ", " in parentheses
section(label, d) ==
  label \o <<"=","(">>
    \o join([i \in DOMAIN d.v |-> d.v[i].k \o <<"=">> \o py_str(d.v[i].v)],
            <<","," ">>)
    \o <<")">>

\* if correlation_id: log_message = f"[{correlation_id}] {log_message}"
with_correlation_id(correlation_id, log_message) ==
  IF truthy(correlation_id)
    THEN <<"[">> \o py_str(correlation_id) \o <<"]"," ">> \o log_message
    ELSE log_message

\* if filtered_context: log_message += f" | Context: {filtered_context}"
with_context(log_message, filtered_context) ==
  IF truthy(filtered_context)
    THEN log_message \o <<" ","|"," ","C","o","n","t","e","x","t",":"," ">> \o py_str(filtered_context)
    ELSE log_message

\* A variant that appends the headers before the params.
request_parts_headers_first(sanitized) ==
  <<<<"m","e","t","h","o","d","=">> \o py_str(Get(sanitized, <<"m","e","t","h","o","d">>)),
    <<"u","r","l","=">> \o py_str(Get(sanitized, <<"u","r","l">>))>>
  \o (IF HasKey(sanitized, <<"h","e","a","d","e","r","s">>)
        THEN <<section(<<"h","e","a","d","e","r","s">>, Get(sanitized, <<"h","e","a","d","e","r","s">>))>> ELSE <<>>)
  \o (IF HasKey(sanitized, <<"p","a","r","a","m","s">>)
        THEN <<section(<<"p","a","r","a","m","s">>, Get(sanitized, <<"p","a","r","a","m","s">>))>> ELSE <<>>)
  \o (IF HasKey(sanitized, <<"j","s","o","n","_","d","a","t","a">>)
        THEN <<section(<<"j","s","o","n","_","d","a","t","a">>, Get(sanitized, <<"j","s","o","n","_","d","a","t","a">>))>>
        ELSE <<>>)

\* The parts of lines 192-206, in the order they are appended.
request_parts(sanitized) ==
  <<<<"m","e","t","h","o","d","=">> \o py_str(Get(sanitized, <<"m","e","t","h","o","d">>)),
    <<"u","r","l","=">> \o py_str(Get(sanitized, <<"u","r","l">>))>>
  \o (IF HasKey(sanitized, <<"p","a","r","a","m","s">>)
        THEN <<section(<<"p","a","r","a","m","s">>, Get(sanitized, <<"p","a","r","a","m","s">>))>> ELSE <<>>)
  \o (IF HasKey(sanitized, <<"h","e","a","d","e","r","s">>)
        THEN <<section(<<"h","e","a","d","e","r","s">>, Get(sanitized, <<"h","e","a","d","e","r","s">>))>> ELSE <<>>)
  \o (IF HasKey(sanitized, <<"j","s","o","n","_","d","a","t","a">>)
        THEN <<section(<<"j","s","o","n","_","d","a","t","a">>, Get(sanitized, <<"j","s","o","n","_","d","a","t","a">>))>>
        ELSE <<>>)

debug_request(method, url, params, headers, json_data, correlation_id) ==
  LET sanitized == sanitize_for_logging(method, url, params, headers, json_data)
  IN  IF Raised(sanitized) THEN Fails(sanitized)
      \* .items() of a value that is no dict
      ELSE IF \E key \in {<<"p","a","r","a","m","s">>, <<"h","e","a","d","e","r","s">>, <<"j","s","o","n","_","d","a","t","a">>} :
                HasKey(sanitized, key) /\ ~isinstance(Get(sanitized, key), "dict")
        THEN Fails(Raise("AttributeError"))
      ELSE Done(<<Record("DEBUG",
                   with_correlation_id(correlation_id,
                     <<"H","T","T","P"," ","R","e","q","u","e","s","t",":"," ">>
                       \o join(request_parts(sanitized), <<","," ">>)))>>)

debug_response(status_code, response_size, correlation_id) ==
  Done(<<Record("DEBUG",
           with_correlation_id(correlation_id,
             <<"H","T","T","P"," ","R","e","s","p","o","n","s","e",":"," ","s","t","a","t","u","s","=">> \o py_str(status_code)
               \o <<","," ","s","i","z","e","=">> \o py_str(response_size) \o <<"b","y","t","e","s">>))>>)

\* An exception object: its class name and its text.
Exception(kind, text) == [t |-> "exception", kind |-> kind, text |-> text]

\* type(error).__name__
type_name(error) ==
  IF error.t = "exception" THEN error.kind ELSE <<"N","o","n","e","T","y","p","e">>

\* str(error)
error_text(error) ==
  IF error.t = "exception" THEN error.text ELSE py_str(error)

\* A variant that renders the context as it was passed.
error_with_context_unfiltered(message, error, correlation_id, context) ==
  Done(<<Record("ERROR",
           with_correlation_id(correlation_id,
             with_context(<<"E","r","r","o","r",":"," ">> \o py_str(message) \o <<" ","-"," ">>
                            \o type_name(error) \o <<":"," ">>
                            \o error_text(error),
                          context)))>>)

error_with_context(message, error, correlation_id, context) ==
  LET filtered_context == filter_sensitive_dict(context, FILTERED, TRUE)
  IN  Done(<<Record("ERROR",
               with_correlation_id(correlation_id,
                 with_context(<<"E","r","r","o","r",":"," ">> \o py_str(message) \o <<" ","-"," ">>
                                \o type_name(error) \o <<":"," ">>
                                \o error_text(error),
                              filtered_context)))>>)

info_with_context(message, correlation_id, context) ==
  LET filtered_context == filter_sensitive_dict(context, FILTERED, TRUE)
  IN  \* log_message += "..." on a message that is no str
      IF truthy(filtered_context) /\ ~isinstance(message, "str")
        THEN Fails(Raise("TypeError"))
      ELSE Done(<<Record("INFO",
                   with_correlation_id(correlation_id,
                     with_context(py_str(message), filtered_context)))>>)

\* str.upper() on one character
upper_char(c) ==
  IF \E i \in DOMAIN LowerSeq : LowerSeq[i] = c
    THEN UpperSeq[CHOOSE i \in DOMAIN LowerSeq : LowerSeq[i] = c]
    ELSE c

\* str.upper()
upper(s) == [i \in DOMAIN s |-> upper_char(s[i])]

\* A variant that compares the severity as it was given.
severity_level_case_sensitive(severity) ==
  IF severity = <<"E","R","R","O","R">> THEN "ERROR"
  ELSE IF severity = <<"W","A","R","N","I","N","G">> THEN "WARNING"
  ELSE "INFO"

\* The level security_event logs at (lines 280-285).
severity_level(severity) ==
  IF upper(severity) = <<"E","R","R","O","R">> THEN "ERROR"
  ELSE IF upper(severity) = <<"W","A","R","N","I","N","G">> THEN "WARNING"
  ELSE "INFO"

security_event(event_type, description, severity, correlation_id, context) ==
  LET filtered_context == filter_sensitive_dict(context, FILTERED, TRUE)
      log_message ==
        with_correlation_id(correlation_id,
          with_context(<<"S","E","C","U","R","I","T","Y","_","E","V","E","N","T",":"," ">> \o py_str(event_type) \o <<" ","|"," ">>
                         \o py_str(description),
                       filtered_context))
  IN  \* severity.upper() of a value that is no str
      IF ~isinstance(severity, "str") THEN Fails(Raise("AttributeError"))
      ELSE Done(<<Record(severity_level(severity.v), log_message)>>)

----------------------------------------------------------------------------
(* create_correlation_id and AzureDevOpsClient._make_request.               *)

\* str(uuid.uuid4())[:8], for the text uuid4 of the UUID drawn
create_correlation_id(uuid4) == Str(SubSeq(uuid4, 1, 8))

\* The headers _make_request hands to debug_request (line 109).
request_headers ==
  Dict(<<Item(<<"A","u","t","h","o","r","i","z","a","t","i","o","n">>, Str(<<"[","R","E","D","A","C","T","E","D","]">>)),
         Item(<<"C","o","n","t","e","n","t","-","T","y","p","e">>, Str(<<"a","p","p","l","i","c","a","t","i","o","n","/","j","s","o","n">>))>>)

\* self.config.api_version
api_version == Str(<<"7",".","1">>)

\* params, with the API version added (lines 100-102)
with_api_version(params) ==
  IF params = None
    THEN Dict(<<Item(<<"a","p","i","-","v","e","r","s","i","o","n">>, api_version)>>)
    ELSE Set(params, <<"a","p","i","-","v","e","r","s","i","o","n">>, api_version)

\* The records of lines 105-112.
request_lines(method, url, params, json_data, correlation_id) ==
  debug_request(method, url, with_api_version(params), request_headers,
                json_data, correlation_id).emit

\* A variant that logs the security event before the response line.
response_lines_event_first(status_code, response_size, url, correlation_id) ==
  (IF status_code.v = 401
     THEN security_event(Str(<<"A","U","T","H","E","N","T","I","C","A","T","I","O","N","_","F","A","I","L","U","R","E">>),
            Str(<<"A","z","u","r","e"," ","D","e","v","O","p","s"," ","A","P","I"," ","a","u","t","h","e","n","t","i","c","a","t","i","o","n"," ","f","a","i","l","e","d">>),
            Str(<<"W","A","R","N","I","N","G">>), correlation_id,
            Dict(<<Item(<<"s","t","a","t","u","s","_","c","o","d","e">>, status_code),
                   Item(<<"u","r","l">>, filter_url_params(url, FILTERED))>>)).emit
   ELSE IF status_code.v = 403
     THEN security_event(Str(<<"A","U","T","H","O","R","I","Z","A","T","I","O","N","_","F","A","I","L","U","R","E">>),
            Str(<<"A","z","u","r","e"," ","D","e","v","O","p","s"," ","A","P","I"," ","a","u","t","h","o","r","i","z","a","t","i","o","n"," ","f","a","i","l","e","d">>),
            Str(<<"W","A","R","N","I","N","G">>), correlation_id,
            Dict(<<Item(<<"s","t","a","t","u","s","_","c","o","d","e">>, status_code),
                   Item(<<"u","r","l">>, filter_url_params(url, FILTERED))>>)).emit
   ELSE <<>>)
  \o debug_response(status_code, response_size, correlation_id).emit

\* A variant that logs the response without the correlation id.
response_lines_uncorrelated(status_code, response_size, url, correlation_id) ==
  debug_response(status_code, response_size, None).emit
  \o (IF status_code.v = 401
        THEN security_event(Str(<<"A","U","T","H","E","N","T","I","C","A","T","I","O","N","_","F","A","I","L","U","R","E">>),
               Str(<<"A","z","u","r","e"," ","D","e","v","O","p","s"," ","A","P","I"," ","a","u","t","h","e","n","t","i","c","a","t","i","o","n"," ","f","a","i","l","e","d">>),
               Str(<<"W","A","R","N","I","N","G">>), correlation_id,
               Dict(<<Item(<<"s","t","a","t","u","s","_","c","o","d","e">>, status_code),
                      Item(<<"u","r","l">>, filter_url_params(url, FILTERED))>>)).emit
      ELSE IF status_code.v = 403
        THEN security_event(Str(<<"A","U","T","H","O","R","I","Z","A","T","I","O","N","_","F","A","I","L","U","R","E">>),
               Str(<<"A","z","u","r","e"," ","D","e","v","O","p","s"," ","A","P","I"," ","a","u","t","h","o","r","i","z","a","t","i","o","n"," ","f","a","i","l","e","d">>),
               Str(<<"W","A","R","N","I","N","G">>), correlation_id,
               Dict(<<Item(<<"s","t","a","t","u","s","_","c","o","d","e">>, status_code),
                      Item(<<"u","r","l">>, filter_url_params(url, FILTERED))>>)).emit
      ELSE <<>>)

\* The records of lines 121-152, for a response that has arrived.
response_lines(status_code, response_size, url, correlation_id) ==
  debug_response(status_code, response_size, correlation_id).emit
  \o (IF status_code.v = 401
        THEN security_event(Str(<<"A","U","T","H","E","N","T","I","C","A","T","I","O","N","_","F","A","I","L","U","R","E">>),
               Str(<<"A","z","u","r","e"," ","D","e","v","O","p","s"," ","A","P","I"," ","a","u","t","h","e","n","t","i","c","a","t","i","o","n"," ","f","a","i","l","e","d">>),
               Str(<<"W","A","R","N","I","N","G">>), correlation_id,
               Dict(<<Item(<<"s","t","a","t","u","s","_","c","o","d","e">>, status_code),
                      Item(<<"u","r","l">>, filter_url_params(url, FILTERED))>>)).emit
      ELSE IF status_code.v = 403
        THEN security_event(Str(<<"A","U","T","H","O","R","I","Z","A","T","I","O","N","_","F","A","I","L","U","R","E">>),
               Str(<<"A","z","u","r","e"," ","D","e","v","O","p","s"," ","A","P","I"," ","a","u","t","h","o","r","i","z","a","t","i","o","n"," ","f","a","i","l","e","d">>),
               Str(<<"W","A","R","N","I","N","G">>), correlation_id,
               Dict(<<Item(<<"s","t","a","t","u","s","_","c","o","d","e">>, status_code),
                      Item(<<"u","r","l">>, filter_url_params(url, FILTERED))>>)).emit
      ELSE <<>>)

\* The records of lines 162-169, for a request the transport has failed.
transport_error_lines(e, method, url, correlation_id) ==
  error_with_context(Str(<<"H","T","T","P"," ","r","e","q","u","e","s","t"," ","f","a","i","l","e","d">>), e, correlation_id,
    Dict(<<Item(<<"u","r","l">>, filter_url_params(url, FILTERED)),
           Item(<<"m","e","t","h","o","d">>, method)>>)).emit

\* An httpx.RequestError
RequestError == Exception(<<"C","o","n","n","e","c","t","E","r","r","o","r">>, <<"c","o","n","n","e","c","t","i","o","n"," ","f","a","i","l","e","d">>)

\* AzureDevOpsAPIError(message, status_code=...), lines 22-34; status_code
\* is None when the error is raised without one.
AzureDevOpsAPIError(status_code) ==
  [t |-> "raise", exc |-> "AzureDevOpsAPIError", status_code |-> status_code]

\* The body of a response that is no JSON document (an empty body, a page
\* of HTML).
NotJSON == [t |-> "bytes"]

\* response.json(): the parsed body, or json.JSONDecodeError
response_json(response) ==
  IF response.body = NotJSON THEN Raise("JSONDecodeError") ELSE response.body

\* What _make_request gives for a response (lines 127-160).
response_result(response) ==
  IF response.status_code.v >= 400
    THEN AzureDevOpsAPIError(response.status_code)
    ELSE response_json(response)

----------------------------------------------------------------------------
(* Inputs.  Each behaviour is one call of one function of SecurityFilter:  *)
(* the initial state holds the function and its arguments, the call's      *)
(* action stores what it returns.                                          *)

MaxKeyParts == 2

MaxItems == 2

MaxWrap == 2

\* The text of n copies of the character c.
Rep(c, n) == [i \in 1..n |-> c]

\* Fragments that key names are put together from.
KeyParts ==
  { <<"p","a","t">>,
    <<"t","e","r","n">>,
    <<"a","u","t","h">>,
    <<"o","r">>,
    <<"a","p","i">>,
    <<"-","K","e","y">>,
    <<"_","k","e","y">>,
    <<"s","e","c","r","e","t">>,
    <<"c","l","i","e","n","t">>,
    <<"_","I","D">>,
    <<"t","e","n","a","n","t">>,
    <<"a","c","c","e","s","s">>,
    <<"t","o","k","e","n">>,
    <<"P","a","s","s">>,
    <<"w","o","r","d">>,
    <<"u","s","e","r">>,
    <<"n","a","m","e">>,
    <<"S","E","C","R","E","T">>,
    <<"x">>,
    <<"_">>,
    <<"u","r","l">> }

RECURSIVE KeysOf(_)
KeysOf(n) ==
  IF n = 0 THEN { <<>> }
  ELSE KeysOf(n - 1) \cup { a \o b : a \in KeysOf(n - 1), b \in KeyParts }

Keys == KeysOf(MaxKeyParts)

\* Lengths around the limits of the value signatures.
RunLens == {0, 9, 10, 19, 20, 21, 35, 36, 51, 52, 53, 251, 252}

GuidText(h, sep) ==
  Rep(h, 8) \o <<sep>> \o Rep(h, 4) \o <<sep>> \o Rep(h, 4) \o <<sep>>
    \o Rep(h, 4) \o <<sep>> \o Rep(h, 12)

Texts ==
  { pre \o Rep(c, n) \o post :
      pre \in { <<>>, <<"g","h","p","_">>, <<"g","h","x","_">>, <<"x"," ">> },
      c \in {"a", "Z", "7", "+", "_", "-"},
      n \in RunLens,
      post \in { <<>>, <<"!">> } }
  \cup
  { GuidText(h, sep) \o post :
      h \in {"a", "F", "0", "g"}, sep \in {"-", "_"},
      post \in { <<>>, <<"0">> } }

PyInt(n) == [t |-> "int", v |-> n]

Object(id) == [t |-> "object", v |-> id]

PlainText == Str(<<"j","o","h","n">>)

SecretText == Str(Rep("a", 20))

Scalars == { PlainText, SecretText, None, PyInt(7), Object("o1") }

ValueInputs ==
  { Str(s) : s \in Texts } \cup Scalars \cup { List(<<SecretText>>), Dict(<<>>) }

\* Keys of the mappings handed to filter_sensitive_dict.
password == <<"p","a","s","s","w","o","r","d">>

name == <<"n","a","m","e">>

DictKeys == { password, name }

\* Sequences of at most n elements of S.
RECURSIVE SeqsUpTo(_, _)
SeqsUpTo(S, n) ==
  IF n = 0 THEN { <<>> }
  ELSE SeqsUpTo(S, n - 1)
         \cup { Append(q, x) : q \in { r \in SeqsUpTo(S, n - 1) : Len(r) = n - 1 },
                               x \in S }

\* Mappings of at most MaxItems items with distinct keys and scalar values.
FlatDicts ==
  { Dict(q) : q \in { r \in SeqsUpTo({ Item(k, v) : k \in DictKeys, v \in Scalars },
                                      MaxItems) :
                        \A i, j \in DOMAIN r : i # j => r[i].k # r[j].k } }

\* Sequences of at most MaxItems elements: scalars and one-item mappings.
FlatLists ==
  { List(q) : q \in SeqsUpTo({ PlainText, None,
                               Dict(<<Item(password, PlainText)>>),
                               Dict(<<Item(name, PlainText)>>) },
                             MaxItems) }

\* S, and each value of S under a key of a mapping or as the one element
\* of a sequence.
Wrap(S) ==
  S \cup { Dict(<<Item(k, v)>>) : k \in DictKeys, v \in S }
    \cup { List(<<v>>) : v \in S }

RECURSIVE Nested(_)
Nested(n) ==
  IF n = 0 THEN Scalars \cup FlatDicts \cup FlatLists
  ELSE Wrap(Nested(n - 1))

DataInputs == Nested(MaxWrap)

\* A custom placeholder; its text has the shape of a secret.
XMASK == Str(Rep("X", 20))

Placeholders == { FILTERED, XMASK }

\* URLs: a base, and a query string of at most MaxItems parameters.
UrlBases == { <<"h","t","t","p","s",":","/","/","x","/","y">>, <<>> }

UrlParams ==
  { <<"a","p","i","_","k","e","y","=","s","e","c","r","e","t","1","2","3">>, <<"p","r","o","j","e","c","t","=","t","e","s","t">>, <<"a","p","i","_","k","e","y","=">>,
    <<"s","t","a","n","d","a","l","o","n","e","_","p","a","r","a","m">>, <<"t","o","k","e","n">>, <<>>, <<"=","v">>, <<"T","o","k","e","n","=","a","=","b">>,
    <<"q","=","a","?","t","o","k","e","n","=","b">> }

UrlTexts ==
  UrlBases
    \cup { base \o <<"?">> \o join(ps, <<"&">>) :
             base \in UrlBases,
             ps \in SeqsUpTo(UrlParams, MaxItems) \ { <<>> } }

UrlInputs == { Str(u) : u \in UrlTexts }

Pending == [t |-> "pending"]

Bool(b) == [t |-> "bool", v |-> b]

----------------------------------------------------------------------------
(* models.py: the records built from the responses of the API.             *)

\* d.get(key, default)
get(d, key, default) == IF HasKey(d, key) THEN Get(d, key) ELSE default

\* s.replace(c, new), for a single character c
str_replace(s, c, new) == join(split(s, c), new)

\* datetime.fromisoformat(text.replace("Z", "+00:00")), kept as the ISO text
\* isoformat() gives back
fromisoformat(text) == [t |-> "datetime", v |-> str_replace(text.v, "Z", <<"+","0","0",":","0","0">>)]

\* A datetime's isoformat()
isoformat(datetime) == Str(datetime.v)

\* User(id=..., display_name=..., unique_name=..., image_url=...), lines
\* 77-82 (and 86-91, 138-143)
User(data) ==
  IF ~(HasKey(data, <<"i","d">>) /\ HasKey(data, <<"d","i","s","p","l","a","y","N","a","m","e">>)
         /\ HasKey(data, <<"u","n","i","q","u","e","N","a","m","e">>))
    THEN Raise("KeyError")
    ELSE [t |-> "User", id |-> Get(data, <<"i","d">>),
          display_name |-> Get(data, <<"d","i","s","p","l","a","y","N","a","m","e">>),
          unique_name |-> Get(data, <<"u","n","i","q","u","e","N","a","m","e">>),
          image_url |-> get(data, <<"i","m","a","g","e","U","r","l">>, None)]

\* class VariableGroupType
VariableGroupType == { Str(<<"V","s","t","s">>), Str(<<"A","z","u","r","e","K","e","y","V","a","u","l","t">>) }

\* class ServiceConnectionType
ServiceConnectionType ==
  { Str(<<"a","z","u","r","e","r","m">>), Str(<<"g","i","t","h","u","b">>), Str(<<"d","o","c","k","e","r","r","e","g","i","s","t","r","y">>),
    Str(<<"k","u","b","e","r","n","e","t","e","s">>), Str(<<"g","e","n","e","r","i","c">>) }

\* VariableValue(value=..., is_secret=..., is_readonly=...), lines 67-71
VariableValue(var_data) ==
  [t |-> "VariableValue", value |-> get(var_data, <<"v","a","l","u","e">>, None),
   is_secret |-> get(var_data, <<"i","s","S","e","c","r","e","t">>, Bool(FALSE)),
   is_readonly |-> get(var_data, <<"i","s","R","e","a","d","o","n","l","y">>, Bool(FALSE))]

\* Project.from_api_response
Project_from_api_response(data) ==
  IF \E key \in { <<"i","d">>, <<"n","a","m","e">>, <<"u","r","l">>, <<"s","t","a","t","e">>, <<"v","i","s","i","b","i","l","i","t","y">>,
                  <<"l","a","s","t","U","p","d","a","t","e","T","i","m","e">> } : ~HasKey(data, key)
    THEN Raise("KeyError")
    ELSE [t |-> "Project", id |-> Get(data, <<"i","d">>),
          name |-> Get(data, <<"n","a","m","e">>),
          description |-> get(data, <<"d","e","s","c","r","i","p","t","i","o","n">>, None),
          url |-> Get(data, <<"u","r","l">>), state |-> Get(data, <<"s","t","a","t","e">>),
          visibility |-> Get(data, <<"v","i","s","i","b","i","l","i","t","y">>),
          last_update_time |-> fromisoformat(Get(data, <<"l","a","s","t","U","p","d","a","t","e","T","i","m","e">>))]

\* VariableGroup.from_api_response
VariableGroup_from_api_response(data) ==
  LET items == get(data, <<"v","a","r","i","a","b","l","e","s">>, Dict(<<>>)).v
      variables ==
        Dict([i \in DOMAIN items |-> Item(items[i].k, VariableValue(items[i].v))])
  IN  \* the arguments of cls(...) are evaluated in the order written
      IF \E key \in { <<"i","d">>, <<"n","a","m","e">>, <<"t","y","p","e">> } : ~HasKey(data, key)
        THEN Raise("KeyError")
      ELSE IF Get(data, <<"t","y","p","e">>) \notin VariableGroupType
        THEN Raise("ValueError")
      ELSE IF ~HasKey(data, <<"c","r","e","a","t","e","d","B","y">>) THEN Raise("KeyError")
      ELSE IF Raised(User(Get(data, <<"c","r","e","a","t","e","d","B","y">>)))
        THEN User(Get(data, <<"c","r","e","a","t","e","d","B","y">>))
      ELSE IF ~HasKey(data, <<"c","r","e","a","t","e","d","O","n">>) \/ ~HasKey(data, <<"m","o","d","i","f","i","e","d","B","y">>)
        THEN Raise("KeyError")
      ELSE IF Raised(User(Get(data, <<"m","o","d","i","f","i","e","d","B","y">>)))
        THEN User(Get(data, <<"m","o","d","i","f","i","e","d","B","y">>))
      ELSE IF ~HasKey(data, <<"m","o","d","i","f","i","e","d","O","n">>) THEN Raise("KeyError")
      ELSE [t |-> "VariableGroup", id |-> Get(data, <<"i","d">>),
            name |-> Get(data, <<"n","a","m","e">>),
            description |-> get(data, <<"d","e","s","c","r","i","p","t","i","o","n">>, None),
            type |-> Get(data, <<"t","y","p","e">>),
            variables |-> variables,
            created_by |-> User(Get(data, <<"c","r","e","a","t","e","d","B","y">>)),
            created_on |-> fromisoformat(Get(data, <<"c","r","e","a","t","e","d","O","n">>)),
            modified_by |-> User(Get(data, <<"m","o","d","i","f","i","e","d","B","y">>)),
            modified_on |-> fromisoformat(Get(data, <<"m","o","d","i","f","i","e","d","O","n">>)),
            project_id |-> get(data, <<"p","r","o","j","e","c","t","I","d">>, None),
            project_name |-> get(data, <<"p","r","o","j","e","c","t","N","a","m","e">>, None),
            provider_data |-> get(data, <<"p","r","o","v","i","d","e","r","D","a","t","a">>, None)]

\* ServiceEndpointAuthorization(scheme=..., parameters=...), lines 130-133
ServiceEndpointAuthorization(auth_data) ==
  [t |-> "ServiceEndpointAuthorization",
   scheme |-> get(auth_data, <<"s","c","h","e","m","e">>, Str(<<>>)),
   parameters |-> get(auth_data, <<"p","a","r","a","m","e","t","e","r","s">>, Dict(<<>>))]

\* data.get("serviceEndpointProjectReferences", [{}])[0]
\*     .get("projectReference", {}).get(key)
project_reference(data, key) ==
  LET references == get(data, <<"s","e","r","v","i","c","e","E","n","d","p","o","i","n","t","P","r","o","j","e","c","t","R","e","f","e","r","e","n","c","e","s">>,
                        List(<<Dict(<<>>)>>))
  IN  IF references.v = <<>> THEN Raise("IndexError")
      ELSE get(get(references.v[1], <<"p","r","o","j","e","c","t","R","e","f","e","r","e","n","c","e">>, Dict(<<>>)), key, None)

\* ServiceConnection.from_api_response
ServiceConnection_from_api_response(data) ==
  LET created_by ==
        IF HasKey(data, <<"c","r","e","a","t","e","d","B","y">>) THEN User(Get(data, <<"c","r","e","a","t","e","d","B","y">>))
        ELSE None
  IN  IF Raised(created_by) THEN created_by
      ELSE IF ~(HasKey(data, <<"i","d">>) /\ HasKey(data, <<"n","a","m","e">>))
        THEN Raise("KeyError")
      ELSE IF get(data, <<"t","y","p","e">>, Str(<<"g","e","n","e","r","i","c">>)) \notin ServiceConnectionType
        THEN Raise("ValueError")
      ELSE IF Raised(project_reference(data, <<"i","d">>))
        THEN project_reference(data, <<"i","d">>)
      ELSE [t |-> "ServiceConnection", id |-> Get(data, <<"i","d">>),
            name |-> Get(data, <<"n","a","m","e">>),
            type |-> get(data, <<"t","y","p","e">>, Str(<<"g","e","n","e","r","i","c">>)),
            url |-> get(data, <<"u","r","l">>, None),
            description |-> get(data, <<"d","e","s","c","r","i","p","t","i","o","n">>, None),
            authorization |->
              ServiceEndpointAuthorization(get(data, <<"a","u","t","h","o","r","i","z","a","t","i","o","n">>, Dict(<<>>))),
            data |-> get(data, <<"d","a","t","a">>, Dict(<<>>)),
            is_shared |-> get(data, <<"i","s","S","h","a","r","e","d">>, Bool(FALSE)),
            is_ready |-> get(data, <<"i","s","R","e","a","d","y">>, Bool(FALSE)),
            owner |-> get(data, <<"o","w","n","e","r">>, Str(<<>>)),
            created_by |-> created_by,
            project_id |-> project_reference(data, <<"i","d">>),
            project_name |-> project_reference(data, <<"n","a","m","e">>)]

----------------------------------------------------------------------------
(* AzureDevOpsClient: the lookups of one resource.  Each is given what its  *)
(* call of _make_request returned or raised.                               *)

\* `except AzureDevOpsAPIError as e: if e.status_code == 404`
not_found(response) ==
  /\ response.exc = "AzureDevOpsAPIError"
  /\ response.status_code = PyInt(404)

\* A variant that returns None for every error of the API.
get_project_none_on_error(response) ==
  IF ~Raised(response) THEN Project_from_api_response(response)
  ELSE IF response.exc = "AzureDevOpsAPIError" THEN None
  ELSE response

\* get_project (lines 184-194)
get_project(response) ==
  IF ~Raised(response) THEN Project_from_api_response(response)
  ELSE IF not_found(response) THEN None
  ELSE response

\* get_variable_group (lines 215-226)
get_variable_group(response) ==
  IF ~Raised(response) THEN VariableGroup_from_api_response(response)
  ELSE IF not_found(response) THEN None
  ELSE response

\* get_service_connection (lines 249-262); the URL it logs goes to the
\* module's plain logger
get_service_connection(response) ==
  IF ~Raised(response) THEN ServiceConnection_from_api_response(response)
  ELSE IF not_found(response) THEN None
  ELSE response

----------------------------------------------------------------------------
(* services.py: the details of one variable group and of one service       *)
(* connection.  Each is given what the two requests of its lookups returned *)
(* or raised, and the UUID drawn for its correlation id.                   *)

\* The exception object of a raise, for type(e).__name__ and str(e).  The
\* text of an AzureDevOpsAPIError is the one of client.py:154-158 and 170
\* (with an empty response.text); the text of any other exception is
\* stood for by its name.
caught(e) ==
  IF e.exc = "AzureDevOpsAPIError"
    THEN Exception(<<"A","z","u","r","e","D","e","v","O","p","s","A","P","I","E","r","r","o","r">>,
           IF e.status_code = None
             THEN <<"R","e","q","u","e","s","t"," ","f","a","i","l","e","d",":"," ">> \o error_text(RequestError)
             ELSE <<"A","P","I"," ","r","e","q","u","e","s","t"," ","f","a","i","l","e","d"," ","w","i","t","h"," ","s","t","a","t","u","s"," ">>
                    \o py_str(e.status_code) \o <<":"," ">>)
  ELSE IF e.exc = "JSONDecodeError"
    THEN Exception(<<"J","S","O","N","D","e","c","o","d","e","E","r","r","o","r">>, <<"J","S","O","N","D","e","c","o","d","e","E","r","r","o","r">>)
  ELSE IF e.exc = "KeyError" THEN Exception(<<"K","e","y","E","r","r","o","r">>, <<"K","e","y","E","r","r","o","r">>)
  ELSE IF e.exc = "ValueError" THEN Exception(<<"V","a","l","u","e","E","r","r","o","r">>, <<"V","a","l","u","e","E","r","r","o","r">>)
  ELSE IF e.exc = "IndexError" THEN Exception(<<"I","n","d","e","x","E","r","r","o","r">>, <<"I","n","d","e","x","E","r","r","o","r">>)
  ELSE Exception(<<"E","x","c","e","p","t","i","o","n">>, <<"E","x","c","e","p","t","i","o","n">>)

\* {"success": False, "error": text}
failure(text) ==
  Dict(<<Item(<<"s","u","c","c","e","s","s">>, Bool(FALSE)), Item(<<"e","r","r","o","r">>, Str(text))>>)

\* {"success": True, "data": result, "message": text}
success(result, text) ==
  Dict(<<Item(<<"s","u","c","c","e","s","s">>, Bool(TRUE)), Item(<<"d","a","t","a">>, result),
         Item(<<"m","e","s","s","a","g","e">>, Str(text))>>)

\* `except Exception as e:` of a service method: the error is logged and a
\* failure returned (lines 153-161, 317-326)
service_error(message, e, correlation_id, context) ==
  [ret |-> failure(error_text(caught(e))),
   emit |-> error_with_context(Str(message), caught(e), correlation_id,
                               context).emit]

\* {"id": ..., "display_name": ..., "unique_name": ...} of a User
user_summary(user) ==
  Dict(<<Item(<<"i","d">>, user.id), Item(<<"d","i","s","p","l","a","y","_","n","a","m","e">>, user.display_name),
         Item(<<"u","n","i","q","u","e","_","n","a","m","e">>, user.unique_name)>>)

\* A variant that shows the stored value of every variable.
variable_entry_unmasked(var) ==
  Dict(<<Item(<<"v","a","l","u","e">>, var.value), Item(<<"i","s","_","s","e","c","r","e","t">>, var.is_secret)>>)

\* The entry of one variable (lines 143-146)
variable_entry(var) ==
  Dict(<<Item(<<"v","a","l","u","e">>, IF truthy(var.is_secret) THEN Str(<<"[","S","E","C","R","E","T","]">>)
                         ELSE var.value),
         Item(<<"i","s","_","s","e","c","r","e","t">>, var.is_secret)>>)

\* VariableGroupService.get_variable_group_details
get_variable_group_details(project, group_id, project_response, group_response, uuid4) ==
  LET correlation_id == create_correlation_id(uuid4)
      project_obj == get_project(project_response)
      vg == get_variable_group(group_response)
      context == Dict(<<Item(<<"p","r","o","j","e","c","t">>, project), Item(<<"g","r","o","u","p","_","i","d">>, group_id)>>)
      result ==
        Dict(<<Item(<<"i","d">>, vg.id), Item(<<"n","a","m","e">>, vg.name),
               Item(<<"d","e","s","c","r","i","p","t","i","o","n">>, vg.description),
               Item(<<"t","y","p","e">>, vg.type),
               Item(<<"v","a","r","i","a","b","l","e","s">>,
                    Dict([i \in DOMAIN vg.variables.v |->
                            Item(vg.variables.v[i].k,
                                 variable_entry(vg.variables.v[i].v))])),
               Item(<<"c","r","e","a","t","e","d","_","b","y">>, user_summary(vg.created_by)),
               Item(<<"c","r","e","a","t","e","d","_","o","n">>, isoformat(vg.created_on)),
               Item(<<"m","o","d","i","f","i","e","d","_","b","y">>, user_summary(vg.modified_by)),
               Item(<<"m","o","d","i","f","i","e","d","_","o","n">>, isoformat(vg.modified_on)),
               Item(<<"p","r","o","j","e","c","t","_","i","d">>, vg.project_id),
               Item(<<"p","r","o","j","e","c","t","_","n","a","m","e">>, IF truthy(vg.project_name)
                                      THEN vg.project_name ELSE project)>>)
  IN  IF Raised(project_obj)
        THEN service_error(<<"E","r","r","o","r"," ","g","e","t","t","i","n","g"," ","v","a","r","i","a","b","l","e"," ","g","r","o","u","p"," ","d","e","t","a","i","l","s">>,
                           project_obj, correlation_id, context)
      ELSE IF project_obj = None
        THEN [ret |-> failure(<<"P","r","o","j","e","c","t"," ","'">> \o py_str(project) \o <<"'"," ","n","o","t"," ","f","o","u","n","d">>),
              emit |-> <<>>]
      ELSE IF Raised(vg)
        THEN service_error(<<"E","r","r","o","r"," ","g","e","t","t","i","n","g"," ","v","a","r","i","a","b","l","e"," ","g","r","o","u","p"," ","d","e","t","a","i","l","s">>,
                           vg, correlation_id, context)
      ELSE IF vg = None
        THEN [ret |-> failure(<<"V","a","r","i","a","b","l","e"," ","g","r","o","u","p"," ","w","i","t","h"," ","I","D"," ">> \o py_str(group_id)
                                \o <<" ","n","o","t"," ","f","o","u","n","d">>),
              emit |-> <<>>]
      ELSE [ret |-> success(result, <<"V","a","r","i","a","b","l","e"," ","g","r","o","u","p"," ","'">> \o py_str(vg.name)
                                      \o <<"'"," ","d","e","t","a","i","l","s">>),
            emit |-> security_event(Str(<<"V","A","R","I","A","B","L","E","_","G","R","O","U","P","_","A","C","C","E","S","S">>),
                       Str(<<"V","a","r","i","a","b","l","e"," ","g","r","o","u","p"," ","d","e","t","a","i","l","s"," ","a","c","c","e","s","s","e","d",":"," ">> \o py_str(vg.name)),
                       Str(<<"I","N","F","O">>), correlation_id,
                       Dict(<<Item(<<"p","r","o","j","e","c","t">>, project),
                              Item(<<"g","r","o","u","p","_","i","d">>, group_id),
                              Item(<<"g","r","o","u","p","_","n","a","m","e">>, vg.name)>>)).emit]

\* `"password" in key.lower() or "secret" in key.lower() or "key" in
\* key.lower()`
marked_for_redaction(key) ==
  \/ str_in(<<"p","a","s","s","w","o","r","d">>, lower(key))
  \/ str_in(<<"s","e","c","r","e","t">>, lower(key))
  \/ str_in(<<"k","e","y">>, lower(key))

\* {key: "[REDACTED]" if ... else value for key, value in d.items()}, lines
\* 293-310
redacted_items(d) ==
  Dict([i \in DOMAIN d.v |->
          Item(d.v[i].k, IF marked_for_redaction(d.v[i].k) THEN REDACTED
                         ELSE d.v[i].v)])

\* ServiceConnectionService.get_service_connection_details
get_service_connection_details(project, connection_id, project_response, connection_response, uuid4) ==
  LET correlation_id == create_correlation_id(uuid4)
      project_obj == get_project(project_response)
      sc == get_service_connection(connection_response)
      context == Dict(<<Item(<<"p","r","o","j","e","c","t">>, project),
                        Item(<<"c","o","n","n","e","c","t","i","o","n","_","i","d">>, connection_id)>>)
      result ==
        Dict(<<Item(<<"i","d">>, sc.id), Item(<<"n","a","m","e">>, sc.name),
               Item(<<"t","y","p","e">>, sc.type), Item(<<"u","r","l">>, sc.url),
               Item(<<"d","e","s","c","r","i","p","t","i","o","n">>, sc.description),
               Item(<<"i","s","_","s","h","a","r","e","d">>, sc.is_shared),
               Item(<<"i","s","_","r","e","a","d","y">>, sc.is_ready),
               Item(<<"o","w","n","e","r">>, sc.owner),
               Item(<<"c","r","e","a","t","e","d","_","b","y">>, IF sc.created_by = None THEN None
                                    ELSE user_summary(sc.created_by)),
               Item(<<"p","r","o","j","e","c","t","_","i","d">>, sc.project_id),
               Item(<<"p","r","o","j","e","c","t","_","n","a","m","e">>, IF truthy(sc.project_name)
                                      THEN sc.project_name ELSE project),
               Item(<<"a","u","t","h","o","r","i","z","a","t","i","o","n">>,
                    Dict(<<Item(<<"s","c","h","e","m","e">>, sc.authorization.scheme),
                           Item(<<"p","a","r","a","m","e","t","e","r","s">>,
                                redacted_items(sc.authorization.parameters))>>)),
               Item(<<"d","a","t","a">>, redacted_items(sc.data))>>)
  IN  IF Raised(project_obj)
        THEN service_error(<<"E","r","r","o","r"," ","g","e","t","t","i","n","g"," ","s","e","r","v","i","c","e"," ","c","o","n","n","e","c","t","i","o","n"," ","d","e","t","a","i","l","s">>,
                           project_obj, correlation_id, context)
      ELSE IF project_obj = None
        THEN [ret |-> failure(<<"P","r","o","j","e","c","t"," ","'">> \o py_str(project) \o <<"'"," ","n","o","t"," ","f","o","u","n","d">>),
              emit |-> <<>>]
      ELSE IF Raised(sc)
        THEN service_error(<<"E","r","r","o","r"," ","g","e","t","t","i","n","g"," ","s","e","r","v","i","c","e"," ","c","o","n","n","e","c","t","i","o","n"," ","d","e","t","a","i","l","s">>,
                           sc, correlation_id, context)
      ELSE IF sc = None
        THEN [ret |-> failure(<<"S","e","r","v","i","c","e"," ","c","o","n","n","e","c","t","i","o","n"," ","w","i","t","h"," ","I","D"," ">>
                                \o py_str(connection_id) \o <<" ","n","o","t"," ","f","o","u","n","d">>),
              emit |-> <<>>]
      ELSE [ret |-> success(result, <<"S","e","r","v","i","c","e"," ","c","o","n","n","e","c","t","i","o","n"," ","'">> \o py_str(sc.name)
                                      \o <<"'"," ","d","e","t","a","i","l","s">>),
            emit |-> security_event(Str(<<"S","E","R","V","I","C","E","_","C","O","N","N","E","C","T","I","O","N","_","A","C","C","E","S","S">>),
                       Str(<<"S","e","r","v","i","c","e"," ","c","o","n","n","e","c","t","i","o","n"," ","d","e","t","a","i","l","s"," ","a","c","c","e","s","s","e","d",":"," ">>
                             \o py_str(sc.name)),
                       Str(<<"I","N","F","O">>), correlation_id,
                       Dict(<<Item(<<"p","r","o","j","e","c","t">>, project),
                              Item(<<"c","o","n","n","e","c","t","i","o","n","_","i","d">>, connection_id),
                              Item(<<"c","o","n","n","e","c","t","i","o","n","_","n","a","m","e">>, sc.name),
                              Item(<<"c","o","n","n","e","c","t","i","o","n","_","t","y","p","e">>, sc.type)>>)).emit]

----------------------------------------------------------------------------
(* server.py: MCPAzureDevOpsServer._call_tool.                             *)

TextContent(text) == [type |-> "text", text |-> text]

CallToolResult(content, isError) ==
  [t |-> "CallToolResult", content |-> content, isError |-> isError]

\* The names _call_tool dispatches on (lines 143-162).
ToolNames ==
  { <<"l","i","s","t","_","v","a","r","i","a","b","l","e","_","g","r","o","u","p","s">>, <<"g","e","t","_","v","a","r","i","a","b","l","e","_","g","r","o","u","p","_","d","e","t","a","i","l","s">>,
    <<"l","i","s","t","_","s","e","r","v","i","c","e","_","c","o","n","n","e","c","t","i","o","n","s">>, <<"g","e","t","_","s","e","r","v","i","c","e","_","c","o","n","n","e","c","t","i","o","n","_","d","e","t","a","i","l","s">> }

\* The arguments a tool reads with arguments[...]
subscripted(tool_name) ==
  IF tool_name = <<"g","e","t","_","v","a","r","i","a","b","l","e","_","g","r","o","u","p","_","d","e","t","a","i","l","s">> THEN <<<<"p","r","o","j","e","c","t">>, <<"g","r","o","u","p","_","i","d">>>>
  ELSE IF tool_name = <<"g","e","t","_","s","e","r","v","i","c","e","_","c","o","n","n","e","c","t","i","o","n","_","d","e","t","a","i","l","s">>
    THEN <<<<"p","r","o","j","e","c","t">>, <<"c","o","n","n","e","c","t","i","o","n","_","i","d">>>>
  ELSE <<<<"p","r","o","j","e","c","t">>>>

\* `except Exception as e:` (lines 183-188)
tool_error(text) == CallToolResult(<<TextContent(<<"E","r","r","o","r",":"," ">> \o text)>>, TRUE)

\* _call_tool, for a client that is set or not, the name and the arguments
\* of the request, and what the service method it awaits returns.  The
\* service methods return a dict; the conversion of lines 170-181 reads
\* the attributes content and is_error of the result.
call_tool(client_set, tool_name, arguments, result) ==
  LET given == IF truthy(arguments) THEN arguments ELSE Dict(<<>>)
      missing == SelectSeq(subscripted(tool_name),
                           LAMBDA key : ~HasKey(given, key))
  IN  IF ~client_set
        THEN CallToolResult(
               <<TextContent(<<"E","r","r","o","r",":"," ","A","z","u","r","e"," ","D","e","v","O","p","s"," ","c","l","i","e","n","t"," ","n","o","t"," ","i","n","i","t","i","a","l","i","z","e","d">>)>>,
               TRUE)
      ELSE IF tool_name \notin ToolNames
        THEN CallToolResult(<<TextContent(<<"U","n","k","n","o","w","n"," ","t","o","o","l",":"," ">> \o tool_name)>>, TRUE)
      \* KeyError of arguments["project"]
      ELSE IF missing # <<>> THEN tool_error(repr_str(missing[1]))
      \* AttributeError of result.content
      ELSE IF result.t # "MCPToolResult"
        THEN tool_error(<<"'">> \o <<"d","i","c","t">> \o <<"'"," ","o","b","j","e","c","t"," ","h","a","s"," ","n","o"," ","a","t","t","r","i","b","u","t","e"," ","'","c","o","n","t","e","n","t","'">>)
      ELSE CallToolResult(
             [i \in DOMAIN result.content |-> TextContent(result.content[i].text)],
             result.is_error)

----------------------------------------------------------------------------
(* fastmcp_server.py: the module globals, initialize_services and the four *)
(* tools.                                                                  *)

\* The names of the tools.
FastMCPTools ==
  { "list_variable_groups", "get_variable_group",
    "list_service_connections", "get_service_connection" }

\* The global a tool tests and calls.
service_of(tool) ==
  IF tool \in { "list_variable_groups", "get_variable_group" }
    THEN "variable_group_service"
    ELSE "service_connection_service"

\* The globals as the module sets them (lines 22-25).
NoServices ==
  [client |-> None, variable_group_service |-> None,
   service_connection_service |-> None]

\* The objects the k-th call of initialize_services creates.
NewClient(k) == [t |-> "AzureDevOpsClient", id |-> k]

NewService(class, k) == [t |-> class, id |-> k, client |-> NewClient(k)]

\* A variant that assigns the client and the first service only.
initialize_services_partly(k) ==
  [client |-> NewClient(k),
   variable_group_service |-> NewService("VariableGroupService", k),
   service_connection_service |-> None]

\* The globals after a call of initialize_services in which
\* Config.from_env() succeeds (lines 32-36); the call has no await in it
initialize_services(k) ==
  [client |-> NewClient(k),
   variable_group_service |-> NewService("VariableGroupService", k),
   service_connection_service |-> NewService("ServiceConnectionService", k)]

\* The default message of a failed tool.
failed_to(tool, connection_id) ==
  IF tool = "list_variable_groups" THEN <<"F","a","i","l","e","d"," ","t","o"," ","l","i","s","t"," ","v","a","r","i","a","b","l","e"," ","g","r","o","u","p","s">>
  ELSE IF tool = "get_variable_group" THEN <<"F","a","i","l","e","d"," ","t","o"," ","g","e","t"," ","v","a","r","i","a","b","l","e"," ","g","r","o","u","p"," ","d","e","t","a","i","l","s">>
  ELSE IF tool = "list_service_connections"
    THEN <<"F","a","i","l","e","d"," ","t","o"," ","l","i","s","t"," ","s","e","r","v","i","c","e"," ","c","o","n","n","e","c","t","i","o","n","s">>
  ELSE <<"F","a","i","l","e","d"," ","t","o"," ","g","e","t"," ","s","e","r","v","i","c","e"," ","c","o","n","n","e","c","t","i","o","n"," ","d","e","t","a","i","l","s">>

\* The message of a tool whose service call raised.
failed_with(tool, connection_id, e) ==
  (IF tool = "get_service_connection"
     THEN <<"F","a","i","l","e","d"," ","t","o"," ","g","e","t"," ","s","e","r","v","i","c","e"," ","c","o","n","n","e","c","t","i","o","n"," ">> \o py_str(connection_id)
     ELSE failed_to(tool, connection_id))
  \o <<":"," ">> \o error_text(caught(e))

\* len(value)
len(value) == PyInt(Len(value.v))

\* What a tool returns for what its service call returned or raised: the
\* try statement of each tool (lines 58-82, 100-123, 144-168, 186-209).
tool_result(tool, connection_id, result) ==
  IF Raised(result)
    THEN Dict(<<Item(<<"s","u","c","c","e","s","s">>, Bool(FALSE)),
                Item(<<"e","r","r","o","r">>, Str(error_text(caught(result)))),
                Item(<<"m","e","s","s","a","g","e">>, Str(failed_with(tool, connection_id, result)))>>)
  ELSE IF truthy(get(result, <<"s","u","c","c","e","s","s">>, None))
    THEN IF tool \in { "list_variable_groups", "list_service_connections" }
           THEN Dict(<<Item(<<"s","u","c","c","e","s","s">>, Bool(TRUE)),
                       Item(<<"d","a","t","a">>, get(result, <<"d","a","t","a">>, List(<<>>))),
                       Item(<<"m","e","s","s","a","g","e">>, get(result, <<"m","e","s","s","a","g","e">>, Str(<<>>))),
                       Item(<<"c","o","u","n","t">>, len(get(result, <<"d","a","t","a">>, List(<<>>))))>>)
           ELSE Dict(<<Item(<<"s","u","c","c","e","s","s">>, Bool(TRUE)),
                       Item(<<"d","a","t","a">>, get(result, <<"d","a","t","a">>, None)),
                       Item(<<"m","e","s","s","a","g","e">>, get(result, <<"m","e","s","s","a","g","e">>, Str(<<>>)))>>)
  ELSE Dict(<<Item(<<"s","u","c","c","e","s","s">>, Bool(FALSE)),
              Item(<<"e","r","r","o","r">>, get(result, <<"e","r","r","o","r">>, Str(<<"U","n","k","n","o","w","n"," ","e","r","r","o","r">>))),
              Item(<<"m","e","s","s","a","g","e">>,
                   get(result, <<"m","e","s","s","a","g","e">>, Str(failed_to(tool, connection_id))))>>)

----------------------------------------------------------------------------
(* The same functions on objects.  A dict or a list is an object of the    *)
(* heap, known by its reference; a caller and a function that hold the      *)
(* same reference hold the same object.  The heap is the sequence of the   *)
(* objects created so far; every assignment of the code to a key of a dict *)
(* is a store to one object.                                               *)

Ref(id) == [t |-> "ref", id |-> id]

\* isinstance(value, dict), isinstance(value, list) of a value of the heap
is_a(h, value, type) == value.t = "ref" /\ h[value.id].t = type

\* d[key] = value on any dict: an existing key keeps its place
setitem(d, key, value) ==
  IF HasKey(d, key)
    THEN Dict([i \in DOMAIN d.v |->
                 IF d.v[i].k = key THEN Item(key, value) ELSE d.v[i]])
    ELSE Dict(Append(d.v, Item(key, value)))

\* The heap after `object[key] = value`
store(h, object, key, value) == [h EXCEPT ![object] = setitem(h[object], key, value)]

\* A variant that filters in place: `filtered = data`.
new_dict_aliased(h, data) == [heap |-> h, id |-> data]

\* `filtered = {}` (line 98): a new object
new_dict(h, data) == [heap |-> Append(h, Dict(<<>>)), id |-> Len(h) + 1]

\* The value behind a value of the heap.
RECURSIVE deref(_, _)
deref(h, value) ==
  IF value.t # "ref" THEN value
  ELSE IF h[value.id].t = "dict"
    THEN Dict([i \in DOMAIN h[value.id].v |->
                 Item(h[value.id].v[i].k, deref(h, h[value.id].v[i].v))])
    ELSE List([i \in DOMAIN h[value.id].v |-> deref(h, h[value.id].v[i])])

\* bool(value) of a value of the heap
truthy_in(h, value) ==
  IF value.t = "ref" THEN h[value.id].v # <<>> ELSE truthy(value)

RECURSIVE filter_sensitive_dict_in(_, _, _, _)
RECURSIVE filter_items_in(_, _, _, _, _, _)
RECURSIVE filter_list_in(_, _, _, _, _, _)

\* The list comprehension of lines 107-111, from its i-th item on: a new
\* list of the items, each dict among them filtered.
filter_list_in(h, list, i, items, replacement, deep_scan) ==
  IF i > Len(h[list].v)
    THEN [heap |-> Append(h, List(items)), ret |-> Ref(Len(h) + 1)]
  ELSE
    LET item == h[list].v[i]
        nested == filter_sensitive_dict_in(h, item, replacement, deep_scan)
    IN  IF is_a(h, item, "dict")
          THEN filter_list_in(nested.heap, list, i + 1,
                              Append(items, nested.ret), replacement, deep_scan)
          ELSE filter_list_in(h, list, i + 1, Append(items, item),
                              replacement, deep_scan)

\* The loop of lines 99-117, from the i-th item of data on.
filter_items_in(h, data, filtered, i, replacement, deep_scan) ==
  IF i > Len(h[data].v) THEN [heap |-> h, ret |-> Ref(filtered)]
  ELSE
    LET key == h[data].v[i].k
        value == h[data].v[i].v
        nested == filter_sensitive_dict_in(h, value, replacement, deep_scan)
        items == filter_list_in(h, value.id, 1, <<>>, replacement, deep_scan)
    IN  IF is_sensitive_key(key)
          THEN filter_items_in(store(h, filtered, key, replacement),
                               data, filtered, i + 1, replacement, deep_scan)
        ELSE IF is_a(h, value, "dict") /\ deep_scan
          THEN filter_items_in(store(nested.heap, filtered, key, nested.ret),
                               data, filtered, i + 1, replacement, deep_scan)
        ELSE IF is_a(h, value, "list") /\ deep_scan
          THEN filter_items_in(store(items.heap, filtered, key, items.ret),
                               data, filtered, i + 1, replacement, deep_scan)
        ELSE IF isinstance(value, "str") /\ deep_scan /\ is_sensitive_value(value)
          THEN filter_items_in(store(h, filtered, key, replacement),
                               data, filtered, i + 1, replacement, deep_scan)
        ELSE filter_items_in(store(h, filtered, key, value),
                             data, filtered, i + 1, replacement, deep_scan)

\* filter_sensitive_dict (lines 87-119) on the heap h: the heap after the
\* call and the value returned.
filter_sensitive_dict_in(h, data, replacement, deep_scan) ==
  IF ~is_a(h, data, "dict") THEN [heap |-> h, ret |-> data]
  ELSE LET filtered == new_dict(h, data.id)
       IN  filter_items_in(filtered.heap, data.id, filtered.id, 1,
                           replacement, deep_scan)

\* One more section of `sanitized` (lines 153-160)
sanitized_section(s, key, value, replacement) ==
  IF ~truthy_in(s.heap, value) THEN s
  ELSE LET part == filter_sensitive_dict_in(s.heap, value, replacement, TRUE)
       IN  [heap |-> store(part.heap, s.ret.id, key, part.ret), ret |-> s.ret]

\* sanitize_for_logging (lines 142-162) on the heap h
sanitize_for_logging_in(h, method, url, params, headers, json_data) ==
  LET sanitized ==
        [heap |-> Append(h, Dict(<<Item(<<"m","e","t","h","o","d">>, method),
                                   Item(<<"u","r","l">>, filter_url_params(url, FILTERED))>>)),
         ret |-> Ref(Len(h) + 1)]
  IN  sanitized_section(
        sanitized_section(
          sanitized_section(sanitized, <<"p","a","r","a","m","s">>, params, FILTERED),
          <<"h","e","a","d","e","r","s">>, headers, REDACTED),
        <<"j","s","o","n","_","d","a","t","a">>, json_data, FILTERED)

\* debug_request (lines 177-207) on the heap h: the heap after the call
\* and the record emitted.
debug_request_in(h, method, url, params, headers, json_data, correlation_id) ==
  LET sanitized == sanitize_for_logging_in(h, method, url, params, headers,
                                           json_data)
  IN  [heap |-> sanitized.heap, ret |-> None,
       emit |-> <<Record("DEBUG",
                    with_correlation_id(correlation_id,
                      <<"H","T","T","P"," ","R","e","q","u","e","s","t",":"," ">>
                        \o join(request_parts(deref(sanitized.heap, sanitized.ret)),
                                <<","," ">>)))>>]

\* **context: the keywords of a call arrive in a dict of their own
keywords(h, context) ==
  [heap |-> Append(h, h[context.id]), ret |-> Ref(Len(h) + 1)]

\* filter_sensitive_dict(context) of a logger method
filtered_keywords(h, context) ==
  filter_sensitive_dict_in(keywords(h, context).heap, keywords(h, context).ret,
                           FILTERED, TRUE)

\* error_with_context (lines 227-245) on the heap h
error_with_context_in(h, message, error, correlation_id, context) ==
  LET filtered_context == filtered_keywords(h, context)
  IN  [heap |-> filtered_context.heap, ret |-> None,
       emit |-> <<Record("ERROR",
                    with_correlation_id(correlation_id,
                      with_context(<<"E","r","r","o","r",":"," ">> \o py_str(message) \o <<" ","-"," ">>
                                     \o type_name(error) \o <<":"," ">>
                                     \o error_text(error),
                                   deref(filtered_context.heap,
                                         filtered_context.ret))))>>]

\* info_with_context (lines 247-260) on the heap h
info_with_context_in(h, message, correlation_id, context) ==
  LET filtered_context == filtered_keywords(h, context)
  IN  [heap |-> filtered_context.heap, ret |-> None,
       emit |-> <<Record("INFO",
                    with_correlation_id(correlation_id,
                      with_context(py_str(message),
                                   deref(filtered_context.heap,
                                         filtered_context.ret))))>>]

\* security_event (lines 262-285) on the heap h
security_event_in(h, event_type, description, severity, correlation_id, context) ==
  LET filtered_context == filtered_keywords(h, context)
  IN  [heap |-> filtered_context.heap, ret |-> None,
       emit |-> <<Record(severity_level(severity.v),
                    with_correlation_id(correlation_id,
                      with_context(<<"S","E","C","U","R","I","T","Y","_","E","V","E","N","T",":"," ">> \o py_str(event_type)
                                     \o <<" ","|"," ">> \o py_str(description),
                                   deref(filtered_context.heap,
                                         filtered_context.ret))))>>]

----------------------------------------------------------------------------
(* The calls.                                                              *)

\* Arguments of the logger calls: the values of the logger tests, each
\* secret with a text of its own, and the malformed ones (None for a URL or
\* a severity, a list for a mapping).
urlsecret == <<"u","r","l","s","e","c","r","e","t">>

paramsecret == <<"p","a","r","a","m","s","e","c","r","e","t">>

headersecret == <<"B","e","a","r","e","r"," ","h","e","a","d","e","r","s","e","c","r","e","t">>

bodysecret == <<"b","o","d","y","s","e","c","r","e","t">>

nestedsecret == <<"n","e","s","t","e","d","s","e","c","r","e","t">>

ctxsecret == <<"c","t","x","s","e","c","r","e","t">>

Methods == { Str(<<"P","O","S","T">>), Str(<<"G","E","T">>) }

LogUrls ==
  { Str(<<"h","t","t","p","s",":","/","/","x","/","y","?","a","p","i","_","k","e","y","=">> \o urlsecret),
    Str(<<"h","t","t","p","s",":","/","/","x","/","y">>),
    Str(<<"h","t","t","p","s",":","/","/","x","/","y","?","p","r","o","j","e","c","t","=","t","e","s","t","&","t","o","k","e","n","=">>),
    None }

LogParams ==
  { None,
    Dict(<<>>),
    Dict(<<Item(<<"p","r","o","j","e","c","t">>, Str(<<"t","e","s","t">>)),
           Item(<<"t","o","k","e","n">>, Str(paramsecret))>>),
    Dict(<<Item(name, SecretText)>>),
    Dict(<<Item(name, Dict(<<Item(password, Str(nestedsecret))>>))>>),
    List(<<PlainText>>) }

LogHeaders ==
  { None,
    Dict(<<>>),
    Dict(<<Item(<<"A","u","t","h","o","r","i","z","a","t","i","o","n">>, Str(headersecret)),
           Item(<<"C","o","n","t","e","n","t","-","T","y","p","e">>, Str(<<"a","p","p","l","i","c","a","t","i","o","n","/","j","s","o","n">>))>>) }

LogBodies ==
  { None,
    Dict(<<>>),
    Dict(<<Item(<<"u","s","e","r","n","a","m","e">>, PlainText),
           Item(password, Str(bodysecret))>>) }

CorrelationIds == { None, Str(<<"t","e","s","t","1","2","3">>), Str(<<>>) }

Messages == { Str(<<"T","e","s","t"," ","e","r","r","o","r">>), None }

Errors == { Exception(<<"V","a","l","u","e","E","r","r","o","r">>, <<"T","e","s","t"," ","e","x","c","e","p","t","i","o","n">>), None }

Contexts ==
  { Dict(<<>>),
    Dict(<<Item(<<"a","p","i","_","k","e","y">>, Str(ctxsecret)),
           Item(<<"p","r","o","j","e","c","t">>, Str(<<"t","e","s","t","_","p","r","o","j","e","c","t">>))>>),
    Dict(<<Item(<<"u","s","e","r","_","i","d">>, Str(<<"u","s","e","r","1","2","3">>)),
           Item(password, None)>>),
    Dict(<<Item(name, SecretText)>>),
    Dict(<<Item(name, Dict(<<Item(password, Str(nestedsecret))>>))>>),
    Dict(<<Item(<<"s","t","a","t","u","s","_","c","o","d","e">>, PyInt(401)),
           Item(<<"u","r","l">>, Str(<<"h","t","t","p","s",":","/","/","x","/","y","?","a","p","i","-","v","e","r","s","i","o","n","=","7",".","1">>))>>) }

Severities ==
  { Str(<<"E","R","R","O","R">>), Str(<<"e","r","r","o","r">>), Str(<<"W","A","R","N","I","N","G">>), Str(<<"W","a","r","n","i","n","g">>),
    Str(<<"I","N","F","O">>), Str(<<"d","e","b","u","g">>), Str(<<>>), None, PyInt(3) }

EventTypes == { Str(<<"A","U","T","H","_","F","A","I","L","U","R","E">>) }

Descriptions == { Str(<<"I","n","v","a","l","i","d"," ","c","r","e","d","e","n","t","i","a","l","s">>) }

StatusCodes == { PyInt(200), PyInt(401), None }

ResponseSizes == { PyInt(0), PyInt(1024) }

\* The client: at most MaxCalls calls of _make_request, which interleave at
\* the await of the HTTP response.
MaxCalls == 2

Calls == 1..MaxCalls

\* What uuid4 may draw: any UUID, so also two that begin with the same
\* eight characters, and the same one again.
UuidPool ==
  { <<"1","a","2","b","3","c","4","d","-","0","0","0","0","-","4","0","0","0","-","8","0","0","0","-","0","0","0","0","0","0","0","0","0","0","0","1">>,
    <<"1","a","2","b","3","c","4","d","-","0","0","0","0","-","4","0","0","0","-","8","0","0","0","-","0","0","0","0","0","0","0","0","0","0","0","2">>,
    <<"5","e","6","f","7","a","8","b","-","0","0","0","0","-","4","0","0","0","-","8","0","0","0","-","0","0","0","0","0","0","0","0","0","0","0","3">> }

ClientUrls == { Str(<<"h","t","t","p","s",":","/","/","x","/","y","?","a","p","i","_","k","e","y","=">> \o urlsecret) }

\* The responses of the API: a status code and a body.
Responses ==
  { [status_code |-> PyInt(200), body |-> Dict(<<Item(<<"c","o","u","n","t">>, PyInt(0))>>)],
    [status_code |-> PyInt(204), body |-> NotJSON],
    [status_code |-> PyInt(401), body |-> Dict(<<Item(<<"m","e","s","s","a","g","e">>, Str(<<"d","e","n","i","e","d">>))>>)],
    [status_code |-> PyInt(403), body |-> NotJSON],
    [status_code |-> PyInt(500), body |-> NotJSON] }

\* A call of _make_request that has not been made yet.
Idle ==
  [pc |-> "idle", url |-> None, params |-> None, correlation_id |-> None,
   draw |-> 0, response |-> None, ret |-> [t |-> "pending"]]

\* len(response.content)
ContentLength == PyInt(1024)

\* What the API answers to the lookup of one project, one variable group
\* and one service connection: the resource, and a document that lacks one
\* of its fields.
ProjectPayload ==
  Dict(<<Item(<<"i","d">>, Str(<<"p","1">>)), Item(<<"n","a","m","e">>, Str(<<"a","l","p","h","a">>)),
         Item(<<"u","r","l">>, Str(<<"h","t","t","p","s",":","/","/","x","/","p","1">>)),
         Item(<<"s","t","a","t","e">>, Str(<<"w","e","l","l","F","o","r","m","e","d">>)),
         Item(<<"v","i","s","i","b","i","l","i","t","y">>, Str(<<"p","r","i","v","a","t","e">>)),
         Item(<<"l","a","s","t","U","p","d","a","t","e","T","i","m","e">>, Str(<<"2","0","2","4","-","0","1","-","0","1","T","0","0",":","0","0",":","0","0","Z">>))>>)

\* The document without its last field.
Truncated(payload) == Dict(SubSeq(payload.v, 1, Len(payload.v) - 1))

ProjectPayloads == { ProjectPayload, Truncated(ProjectPayload) }

Author ==
  Dict(<<Item(<<"i","d">>, Str(<<"u","1">>)), Item(<<"d","i","s","p","l","a","y","N","a","m","e">>, Str(<<"A","n","n">>)),
         Item(<<"u","n","i","q","u","e","N","a","m","e">>, Str(<<"a","n","n","@","x">>))>>)

storedsecret == <<"s","t","o","r","e","d","s","e","c","r","e","t">>

\* The variables of a group: a plain one and a secret one the API sends
\* with no value; a secret one sent with its value; none.
VariableSets ==
  { Dict(<<Item(<<"r","e","g","i","o","n">>, Dict(<<Item(<<"v","a","l","u","e">>, Str(<<"w","e","s","t">>))>>)),
           Item(<<"d","b","p","a","s","s">>, Dict(<<Item(<<"v","a","l","u","e">>, None),
                                   Item(<<"i","s","S","e","c","r","e","t">>, Bool(TRUE))>>))>>),
    Dict(<<Item(<<"r","e","g","i","o","n">>, Dict(<<Item(<<"v","a","l","u","e">>, Str(<<"w","e","s","t">>)),
                                   Item(<<"i","s","S","e","c","r","e","t">>, Bool(FALSE))>>)),
           Item(<<"d","b","p","a","s","s">>, Dict(<<Item(<<"v","a","l","u","e">>, Str(storedsecret)),
                                   Item(<<"i","s","S","e","c","r","e","t">>, Bool(TRUE))>>))>>),
    Dict(<<>>) }

VariableGroupPayload(variables) ==
  Dict(<<Item(<<"i","d">>, PyInt(7)), Item(<<"n","a","m","e">>, Str(<<"v","a","r","s">>)),
         Item(<<"t","y","p","e">>, Str(<<"V","s","t","s">>)),
         Item(<<"v","a","r","i","a","b","l","e","s">>, variables),
         Item(<<"c","r","e","a","t","e","d","B","y">>, Author),
         Item(<<"c","r","e","a","t","e","d","O","n">>, Str(<<"2","0","2","4","-","0","1","-","0","1","T","0","0",":","0","0",":","0","0","Z">>)),
         Item(<<"m","o","d","i","f","i","e","d","B","y">>, Author),
         Item(<<"m","o","d","i","f","i","e","d","O","n">>, Str(<<"2","0","2","4","-","0","1","-","0","2","T","0","0",":","0","0",":","0","0","Z">>))>>)

VariableGroupPayloads ==
  { VariableGroupPayload(variables) : variables \in VariableSets }
    \cup { Truncated(VariableGroupPayload(Dict(<<>>))) }

keysecret == <<"k","e","y","s","e","c","r","e","t">>

tokensecret == <<"t","o","k","e","n","s","e","c","r","e","t">>

\* The authorization of a service connection: a service principal with
\* its key, a user with a password, a personal access token.
Authorizations ==
  { Dict(<<Item(<<"s","c","h","e","m","e">>, Str(<<"S","e","r","v","i","c","e","P","r","i","n","c","i","p","a","l">>)),
           Item(<<"p","a","r","a","m","e","t","e","r","s">>,
                Dict(<<Item(<<"t","e","n","a","n","t","i","d">>, Str(<<"t","1">>)),
                       Item(<<"s","e","r","v","i","c","e","p","r","i","n","c","i","p","a","l","k","e","y">>, Str(keysecret))>>))>>),
    Dict(<<Item(<<"s","c","h","e","m","e">>, Str(<<"U","s","e","r","n","a","m","e","P","a","s","s","w","o","r","d">>)),
           Item(<<"p","a","r","a","m","e","t","e","r","s">>,
                Dict(<<Item(<<"u","s","e","r","n","a","m","e">>, PlainText),
                       Item(password, Str(bodysecret))>>))>>),
    Dict(<<Item(<<"s","c","h","e","m","e">>, Str(<<"T","o","k","e","n">>)),
           Item(<<"p","a","r","a","m","e","t","e","r","s">>,
                Dict(<<Item(<<"a","p","i","t","o","k","e","n">>, Str(tokensecret))>>))>>) }

\* The data mapping of a service connection.
ConnectionData ==
  { Dict(<<Item(<<"e","n","v","i","r","o","n","m","e","n","t">>, Str(<<"A","z","u","r","e","C","l","o","u","d">>))>>),
    Dict(<<Item(<<"e","n","v","i","r","o","n","m","e","n","t">>, Str(<<"A","z","u","r","e","C","l","o","u","d">>)),
           Item(<<"a","c","c","e","s","s","t","o","k","e","n">>, Str(tokensecret))>>) }

ServiceConnectionPayload(authorization, data) ==
  Dict(<<Item(<<"i","d">>, Str(<<"c","1">>)), Item(<<"t","y","p","e">>, Str(<<"a","z","u","r","e","r","m">>)),
         Item(<<"u","r","l">>, Str(<<"h","t","t","p","s",":","/","/","x","/","c","1">>)),
         Item(<<"a","u","t","h","o","r","i","z","a","t","i","o","n">>, authorization), Item(<<"d","a","t","a">>, data),
         Item(<<"i","s","R","e","a","d","y">>, Bool(TRUE)),
         Item(<<"n","a","m","e">>, Str(<<"c","o","n","n">>))>>)

ServiceConnectionPayloads ==
  { ServiceConnectionPayload(authorization, data) :
      authorization \in Authorizations, data \in ConnectionData }
    \cup { Truncated(ServiceConnectionPayload(Dict(<<>>), Dict(<<>>))) }

\* What _make_request raises: an error of the API with a status, one with
\* none, and the JSONDecodeError of line 160.
RequestFailures ==
  { AzureDevOpsAPIError(PyInt(404)), AzureDevOpsAPIError(PyInt(401)),
    AzureDevOpsAPIError(PyInt(500)), AzureDevOpsAPIError(None),
    Raise("JSONDecodeError") }

\* The arguments of the tools.
ProjectNames == { Str(<<"a","l","p","h","a">>) }

GroupIds == { PyInt(7) }

ConnectionIds == { Str(<<"c","1">>) }

\* The tool names a request may carry: the four known ones and another.
RequestedTools == ToolNames \cup { <<"d","e","l","e","t","e","_","p","r","o","j","e","c","t">> }

ToolArguments ==
  { Dict(<<Item(<<"p","r","o","j","e","c","t">>, Str(<<"a","l","p","h","a">>)), Item(<<"g","r","o","u","p","_","i","d">>, PyInt(7)),
           Item(<<"c","o","n","n","e","c","t","i","o","n","_","i","d">>, Str(<<"c","1">>))>>),
    Dict(<<>>), None }

\* What a service method returns: a success with its data, a failure with
\* its error.
ServiceResults ==
  { success(Dict(<<Item(<<"i","d">>, PyInt(7)), Item(<<"n","a","m","e">>, Str(<<"v","a","r","s">>))>>),
            <<"V","a","r","i","a","b","l","e"," ","g","r","o","u","p"," ","'","v","a","r","s","'"," ","d","e","t","a","i","l","s">>),
    success(List(<<>>), <<"F","o","u","n","d"," ","0"," ","v","a","r","i","a","b","l","e"," ","g","r","o","u","p","s">>),
    failure(<<"P","r","o","j","e","c","t"," ","'","a","l","p","h","a","'"," ","n","o","t"," ","f","o","u","n","d">>) }

Init ==
  /\ pc = "call"
  /\ ret = Pending
  /\ log = <<>>
  /\ requests = [r \in Calls |-> Idle]
  /\ uuids = <<>>
  /\ client = FALSE
  /\ services = <<>> /\ tools = <<>> /\ inits = <<>>
  /\ http_clients = <<>> /\ held = 0 /\ closing = <<>>
  /\ heap = <<>> /\ tasks = <<>>
  /\ \/ /\ fn = "is_sensitive_key"
        /\ args \in { [key |-> k] : k \in Keys }
     \/ /\ fn = "is_sensitive_value"
        /\ args \in { [value |-> v] : v \in ValueInputs }
     \/ /\ fn = "filter_sensitive_dict"
        /\ args \in { [data |-> d, replacement |-> r, deep_scan |-> b] :
                        d \in DataInputs, r \in Placeholders, b \in BOOLEAN }
     \/ /\ fn = "filter_url_params"
        /\ args \in { [url |-> u, replacement |-> r] :
                        u \in UrlInputs, r \in Placeholders }
     \/ /\ fn = "sanitize_for_logging"
        /\ args \in { [method |-> m, url |-> u, params |-> p, headers |-> h,
                        json_data |-> j] :
                        m \in Methods, u \in LogUrls, p \in LogParams,
                        h \in LogHeaders, j \in LogBodies }
     \/ /\ fn = "debug_request"
        /\ args \in { [method |-> m, url |-> u, params |-> p, headers |-> h,
                        json_data |-> j, correlation_id |-> c] :
                        m \in Methods, u \in LogUrls, p \in LogParams,
                        h \in LogHeaders, j \in LogBodies,
                        c \in CorrelationIds }
     \/ /\ fn = "debug_response"
        /\ args \in { [status_code |-> s, response_size |-> n,
                        correlation_id |-> c] :
                        s \in StatusCodes, n \in ResponseSizes,
                        c \in CorrelationIds }
     \/ /\ fn = "error_with_context"
        /\ args \in { [message |-> m, error |-> e, correlation_id |-> c,
                        context |-> x] :
                        m \in Messages, e \in Errors, c \in CorrelationIds,
                        x \in Contexts }
     \/ /\ fn = "info_with_context"
        /\ args \in { [message |-> m, correlation_id |-> c, context |-> x] :
                        m \in Messages, c \in CorrelationIds, x \in Contexts }
     \/ /\ fn = "security_event"
        /\ args \in { [event_type |-> e, description |-> d, severity |-> s,
                        correlation_id |-> c, context |-> x] :
                        e \in EventTypes, d \in Descriptions,
                        s \in Severities, c \in CorrelationIds,
                        x \in Contexts }
     \/ /\ fn = "get_project"
        /\ args \in { [response |-> r] : r \in ProjectPayloads \cup RequestFailures }
     \/ /\ fn = "get_variable_group"
        /\ args \in { [response |-> r] : r \in VariableGroupPayloads \cup RequestFailures }
     \/ /\ fn = "get_service_connection"
        /\ args \in { [response |-> r] : r \in ServiceConnectionPayloads \cup RequestFailures }
     \/ /\ fn = "get_variable_group_details"
        /\ args \in { [project |-> p, group_id |-> g, project_response |-> pr,
                        group_response |-> gr] :
                        p \in ProjectNames, g \in GroupIds,
                        pr \in ProjectPayloads \cup RequestFailures,
                        gr \in VariableGroupPayloads \cup RequestFailures }
     \/ /\ fn = "get_service_connection_details"
        /\ args \in { [project |-> p, connection_id |-> c, project_response |-> pr,
                        connection_response |-> cr] :
                        p \in ProjectNames, c \in ConnectionIds,
                        pr \in ProjectPayloads \cup RequestFailures,
                        cr \in ServiceConnectionPayloads \cup RequestFailures }
     \/ /\ fn = "_call_tool"
        /\ args \in { [client |-> c, tool_name |-> n, arguments |-> a, result |-> r] :
                        c \in BOOLEAN, n \in RequestedTools,
                        a \in ToolArguments, r \in ServiceResults }

call_is_sensitive_key ==
  /\ pc = "call"
  /\ fn = "is_sensitive_key"
  /\ ret' = Bool(is_sensitive_key(args.key))
  /\ pc' = "done"
  /\ UNCHANGED <<fn, args, log, requests, uuids, client, toolVars, lifecycleVars, sharedVars>>

call_is_sensitive_value ==
  /\ pc = "call"
  /\ fn = "is_sensitive_value"
  /\ ret' = Bool(is_sensitive_value(args.value))
  /\ pc' = "done"
  /\ UNCHANGED <<fn, args, log, requests, uuids, client, toolVars, lifecycleVars, sharedVars>>

call_filter_sensitive_dict ==
  /\ pc = "call"
  /\ fn = "filter_sensitive_dict"
  /\ ret' = filter_sensitive_dict(args.data, args.replacement, args.deep_scan)
  /\ pc' = "done"
  /\ UNCHANGED <<fn, args, log, requests, uuids, client, toolVars, lifecycleVars, sharedVars>>

call_filter_url_params ==
  /\ pc = "call"
  /\ fn = "filter_url_params"
  /\ ret' = filter_url_params(args.url, args.replacement)
  /\ pc' = "done"
  /\ UNCHANGED <<fn, args, log, requests, uuids, client, toolVars, lifecycleVars, sharedVars>>

call_sanitize_for_logging ==
  /\ pc = "call"
  /\ fn = "sanitize_for_logging"
  /\ ret' = sanitize_for_logging(args.method, args.url, args.params,
                                 args.headers, args.json_data)
  /\ pc' = "done"
  /\ UNCHANGED <<fn, args, log, requests, uuids, client, toolVars, lifecycleVars, sharedVars>>

\* A call of a logger method: the records it emits are appended to the log.
Logged(result) ==
  /\ ret' = result.ret
  /\ log' = log \o result.emit
  /\ pc' = "done"
  /\ UNCHANGED <<fn, args, requests, uuids, client, toolVars, lifecycleVars, sharedVars>>

call_debug_request ==
  /\ pc = "call"
  /\ fn = "debug_request"
  /\ Logged(debug_request(args.method, args.url, args.params, args.headers,
                          args.json_data, args.correlation_id))

call_debug_response ==
  /\ pc = "call"
  /\ fn = "debug_response"
  /\ Logged(debug_response(args.status_code, args.response_size,
                           args.correlation_id))

call_error_with_context ==
  /\ pc = "call"
  /\ fn = "error_with_context"
  /\ Logged(error_with_context(args.message, args.error, args.correlation_id,
                               args.context))

call_info_with_context ==
  /\ pc = "call"
  /\ fn = "info_with_context"
  /\ Logged(info_with_context(args.message, args.correlation_id, args.context))

call_security_event ==
  /\ pc = "call"
  /\ fn = "security_event"
  /\ Logged(security_event(args.event_type, args.description, args.severity,
                           args.correlation_id, args.context))

call_get_project ==
  /\ pc = "call"
  /\ fn = "get_project"
  /\ ret' = get_project(args.response)
  /\ pc' = "done"
  /\ UNCHANGED <<fn, args, log, requests, uuids, client, toolVars, lifecycleVars, sharedVars>>

call_get_variable_group ==
  /\ pc = "call"
  /\ fn = "get_variable_group"
  /\ ret' = get_variable_group(args.response)
  /\ pc' = "done"
  /\ UNCHANGED <<fn, args, log, requests, uuids, client, toolVars, lifecycleVars, sharedVars>>

call_get_service_connection ==
  /\ pc = "call"
  /\ fn = "get_service_connection"
  /\ ret' = get_service_connection(args.response)
  /\ pc' = "done"
  /\ UNCHANGED <<fn, args, log, requests, uuids, client, toolVars, lifecycleVars, sharedVars>>

call_get_variable_group_details ==
  /\ pc = "call"
  /\ fn = "get_variable_group_details"
  /\ \E uuid4 \in UuidPool :
       Logged(get_variable_group_details(args.project, args.group_id,
                args.project_response, args.group_response, uuid4))

call_get_service_connection_details ==
  /\ pc = "call"
  /\ fn = "get_service_connection_details"
  /\ \E uuid4 \in UuidPool :
       Logged(get_service_connection_details(args.project, args.connection_id,
                args.project_response, args.connection_response, uuid4))

call_call_tool ==
  /\ pc = "call"
  /\ fn = "_call_tool"
  /\ ret' = call_tool(args.client, args.tool_name, args.arguments, args.result)
  /\ pc' = "done"
  /\ UNCHANGED <<fn, args, log, requests, uuids, client, toolVars, lifecycleVars, sharedVars>>

Next ==
  \/ call_is_sensitive_key
  \/ call_is_sensitive_value
  \/ call_filter_sensitive_dict
  \/ call_filter_url_params
  \/ call_sanitize_for_logging
  \/ call_debug_request
  \/ call_debug_response
  \/ call_error_with_context
  \/ call_info_with_context
  \/ call_security_event
  \/ call_get_project
  \/ call_get_variable_group
  \/ call_get_service_connection
  \/ call_get_variable_group_details
  \/ call_get_service_connection_details
  \/ call_call_tool

Spec == Init /\ [][Next]_vars

----------------------------------------------------------------------------
(* The client: calls of _make_request on one AzureDevOpsClient.  A call    *)
(* runs from its start to the await of the response in one step, and from  *)
(* the response, or the failure of the transport, to its end in another.   *)

\* The records a call of _make_request hands to the logger, each with the
\* call it was emitted for.
OnBehalfOf(r, lines) ==
  [i \in DOMAIN lines |->
     [level |-> lines[i].level, msg |-> lines[i].msg, call |-> r]]

InitClient ==
  /\ pc = "client"
  /\ fn = "_make_request"
  /\ args = <<>>
  /\ ret = Pending
  /\ log = <<>>
  /\ requests = [r \in Calls |-> Idle]
  /\ uuids = <<>>
  /\ client = FALSE
  /\ services = <<>> /\ tools = <<>> /\ inits = <<>>
  /\ http_clients = <<>> /\ held = 0 /\ closing = <<>>
  /\ heap = <<>> /\ tasks = <<>>

\* Lines 94-116: the correlation id is created, the client initialized, the
\* request logged and sent.
StartRequest(r) ==
  /\ requests[r].pc = "idle"
  \* the calls are numbered in the order they are made
  /\ \A q \in Calls : q < r => requests[q].pc # "idle"
  /\ \E uuid4 \in UuidPool, url \in ClientUrls :
       LET correlation_id == create_correlation_id(uuid4)
           lines == request_lines(Str(<<"G","E","T">>), url, None, None, correlation_id)
       IN  /\ requests' = [requests EXCEPT ![r] =
                             [pc |-> "sent", url |-> url,
                              params |-> with_api_version(None),
                              correlation_id |-> correlation_id,
                              draw |-> Len(uuids) + 1, response |-> None,
                              ret |-> Pending]]
           /\ uuids' = Append(uuids, uuid4)
           /\ log' = log \o OnBehalfOf(r, lines)
  /\ client' = TRUE
  /\ UNCHANGED <<pc, fn, args, ret, toolVars, lifecycleVars, sharedVars>>

\* Lines 116-160: the response arrives and is logged; a status of 400 or
\* more raises, after a security event for 401 and 403.
ReceiveResponse(r) ==
  /\ requests[r].pc = "sent"
  /\ \E response \in Responses :
       LET lines == response_lines(response.status_code, ContentLength,
                                   requests[r].url, requests[r].correlation_id)
       IN  /\ requests' = [requests EXCEPT
                             ![r].pc = "done",
                             ![r].response = response,
                             ![r].ret = response_result(response)]
           /\ log' = log \o OnBehalfOf(r, lines)
  /\ UNCHANGED <<pc, fn, args, ret, uuids, client, toolVars, lifecycleVars, sharedVars>>

\* Lines 162-170: the transport fails; the error is logged and raised.
FailRequest(r) ==
  /\ requests[r].pc = "sent"
  /\ LET lines == transport_error_lines(RequestError, Str(<<"G","E","T">>),
                                        requests[r].url,
                                        requests[r].correlation_id)
     IN  /\ requests' = [requests EXCEPT
                           ![r].pc = "done",
                           ![r].ret = AzureDevOpsAPIError(None)]
         /\ log' = log \o OnBehalfOf(r, lines)
  /\ UNCHANGED <<pc, fn, args, ret, uuids, client, toolVars, lifecycleVars, sharedVars>>

NextClient ==
  \/ \E r \in Calls : StartRequest(r)
  \/ \E r \in Calls : ReceiveResponse(r)
  \/ \E r \in Calls : FailRequest(r)

SpecClient == InitClient /\ [][NextClient]_vars

----------------------------------------------------------------------------
(* The tools of fastmcp_server: at most MaxToolCalls calls of the tools,     *)
(* which run on one event loop and interleave at the await of the service. *)

MaxToolCalls == 2

ToolCalls == 1..MaxToolCalls

\* A call of a tool that has not been made yet.
IdleTool == [pc |-> "idle", tool |-> "", used |-> None, ret |-> Pending]

\* What the service method a tool awaits returns, and what a service that
\* a test has replaced raises.
ServiceOutcomes == ServiceResults \cup { Raise("Exception") }

\* What Config.from_env() gives: the configuration, or the ValueError for
\* a variable the environment lacks.
Environments == { "Config", "ValueError" }

InitTools ==
  /\ pc = "tools"
  /\ fn = "tool"
  /\ args = <<>>
  /\ ret = Pending
  /\ log = <<>>
  /\ requests = [r \in Calls |-> Idle]
  /\ uuids = <<>>
  /\ client = FALSE
  /\ services = NoServices
  /\ tools = [t \in ToolCalls |-> IdleTool]
  /\ inits = <<>>
  /\ http_clients = <<>> /\ held = 0 /\ closing = <<>>
  /\ heap = <<>> /\ tasks = <<>>

\* The tool calls its service: the tool awaits the method of the service
\* the global holds; a global that is None has no such method, and the
\* AttributeError is caught in the tool's try statement.
CallService(t, tool, globals) ==
  tools' = [tools EXCEPT ![t] =
    IF globals[service_of(tool)] = None
      THEN [pc |-> "done", tool |-> tool, used |-> None,
            ret |-> tool_result(tool, Str(<<"c","1">>), Raise("AttributeError"))]
      ELSE [pc |-> "awaiting", tool |-> tool,
            used |-> globals[service_of(tool)], ret |-> Pending]]

\* A tool is called and runs up to its first suspension: the test of its
\* global, initialize_services if that is None (which awaits nothing),
\* and the call of the service method.  An exception of
\* initialize_services is raised outside the tool's try statement.
InvokeTool(t, tool) ==
  /\ tools[t].pc = "idle"
  \* the calls are numbered in the order they are made
  /\ \A q \in ToolCalls : q < t => tools[q].pc # "idle"
  /\ IF services[service_of(tool)] = None
       THEN \E from_env \in Environments :
              /\ inits' = Append(inits, from_env)
              /\ IF from_env = "Config"
                   THEN /\ services' = initialize_services(Len(inits) + 1)
                        /\ CallService(t, tool, initialize_services(Len(inits) + 1))
                   ELSE /\ tools' = [tools EXCEPT ![t] =
                                       [pc |-> "done", tool |-> tool,
                                        used |-> None,
                                        ret |-> Raise("ValueError")]]
                        /\ UNCHANGED services
       ELSE /\ CallService(t, tool, services)
            /\ UNCHANGED <<services, inits>>
  /\ UNCHANGED <<pc, fn, args, ret, log, requests, uuids, client,
                 lifecycleVars, sharedVars>>

\* The service method returns or raises, and the tool returns its dict.
ServiceReturns(t) ==
  /\ tools[t].pc = "awaiting"
  /\ \E result \in ServiceOutcomes :
       tools' = [tools EXCEPT
                   ![t].pc = "done",
                   ![t].ret = tool_result(tools[t].tool, Str(<<"c","1">>), result)]
  /\ UNCHANGED <<pc, fn, args, ret, log, requests, uuids, client, services,
                 inits, lifecycleVars, sharedVars>>

NextTools ==
  \/ \E t \in ToolCalls, tool \in FastMCPTools : InvokeTool(t, tool)
  \/ \E t \in ToolCalls : ServiceReturns(t)

SpecTools == InitTools /\ [][NextTools]_vars

----------------------------------------------------------------------------
(* The life cycle of the HTTP client of one AzureDevOpsClient: __aenter__,  *)
(* _make_request (which creates the client lazily), close and __aexit__,   *)
(* in any order.  close suspends at the await of aclose(), where other     *)
(* calls can run.  At most MaxHttpClients clients are created.             *)

MaxHttpClients == 5

\* A call of close that awaits nothing at the moment.
NotClosing == <<>>

InitLifecycle ==
  /\ pc = "lifecycle"
  /\ fn = "AzureDevOpsClient"
  /\ args = <<>>
  /\ ret = Pending
  /\ log = <<>>
  /\ requests = [r \in Calls |-> Idle]
  /\ uuids = <<>>
  /\ client = FALSE
  /\ services = <<>> /\ tools = <<>> /\ inits = <<>>
  \* self._client = None (line 41): no client created, none held
  /\ http_clients = <<>>
  /\ held = 0
  /\ closing = NotClosing
  /\ heap = <<>> /\ tasks = <<>>

\* self._client = httpx.AsyncClient(...)
CreateClient ==
  /\ Len(http_clients) < MaxHttpClients
  /\ http_clients' = Append(http_clients, "open")
  /\ held' = Len(http_clients) + 1

\* __aenter__ (lines 51-61): a new client is created and assigned.
aenter ==
  /\ CreateClient
  /\ UNCHANGED <<pc, fn, args, ret, log, requests, uuids, client, closing,
                 toolVars, sharedVars>>

\* _ensure_client_initialized (lines 73-83), the first step of
\* _make_request: a client is created if none is held.
ensure_client_initialized ==
  /\ IF held = 0 THEN CreateClient ELSE UNCHANGED <<http_clients, held>>
  /\ UNCHANGED <<pc, fn, args, ret, log, requests, uuids, client, closing,
                 toolVars, sharedVars>>

\* close (lines 63-67) up to its await, called directly or by __aexit__
\* (lines 69-71): if a client is held, aclose() marks it closed and
\* suspends; if none is held the call is over.
BeginClose(op) ==
  /\ closing = NotClosing
  /\ IF held # 0
       THEN /\ http_clients' = [http_clients EXCEPT ![held] = "closed"]
            /\ closing' = <<[op |-> op, target |-> held]>>
       ELSE UNCHANGED <<http_clients, closing>>
  /\ UNCHANGED <<pc, fn, args, ret, log, requests, uuids, client, held,
                 toolVars, sharedVars>>

close == BeginClose("close")

aexit == BeginClose("__aexit__")

\* close after its await: self._client = None (line 67).
EndClose ==
  /\ closing # NotClosing
  /\ held' = 0
  /\ closing' = NotClosing
  /\ UNCHANGED <<pc, fn, args, ret, log, requests, uuids, client,
                 http_clients, toolVars, sharedVars>>

NextLifecycle ==
  \/ aenter
  \/ ensure_client_initialized
  \/ close
  \/ aexit
  \/ EndClose

SpecLifecycle == InitLifecycle /\ [][NextLifecycle]_vars

----------------------------------------------------------------------------
(* Invocations that share an input: at most MaxTasks calls of the           *)
(* redaction functions and the logger methods, each given the same         *)
(* mapping.  The functions are synchronous, so a call runs from its start  *)
(* to its end without another in between; the calls come in any order.     *)

MaxTasks == 2

Tasks == 1..MaxTasks

\* The objects of the caller: the mapping passed is object 1; it holds a
\* nested mapping and a sequence with a mapping in it.
SharedHeaps ==
  { << Dict(<<Item(<<"u","s","e","r">>, PlainText), Item(password, Str(bodysecret)),
              Item(<<"p","r","o","f","i","l","e">>, Ref(2)), Item(<<"i","t","e","m","s">>, Ref(3))>>),
       Dict(<<Item(<<"t","o","k","e","n">>, Str(paramsecret)), Item(name, PlainText)>>),
       List(<<Ref(4), PlainText>>),
       Dict(<<Item(<<"a","p","i","_","k","e","y">>, Str(ctxsecret))>>) >>,
    << Dict(<<Item(name, SecretText), Item(<<"p","r","o","f","i","l","e">>, Ref(2))>>),
       Dict(<<Item(name, PlainText)>>) >>,
    << Dict(<<Item(<<"u","s","e","r">>, PlainText)>>) >>,
    << Dict(<<>>) >> }

\* The functions called, with the arguments they get besides the mapping.
SharedFunctions ==
  { "filter_sensitive_dict", "filter_sensitive_dict_shallow",
    "filter_url_params", "debug_request", "error_with_context",
    "info_with_context", "security_event" }

IdleTask == [pc |-> "idle", fn |-> "", ret |-> Pending, emit |-> <<>>]

\* The call of f with the shared mapping, on the heap h.
invoke(f, h) ==
  LET data == Ref(1)
      url == Str(<<"h","t","t","p","s",":","/","/","x","/","y","?","a","p","i","_","k","e","y","=">> \o urlsecret)
      redacted == filter_sensitive_dict_in(h, data,
                    FILTERED, f = "filter_sensitive_dict")
  IN  IF f \in { "filter_sensitive_dict", "filter_sensitive_dict_shallow" }
        THEN [heap |-> redacted.heap, ret |-> redacted.ret, emit |-> <<>>]
      ELSE IF f = "filter_url_params"
        THEN [heap |-> h, ret |-> filter_url_params(url, FILTERED), emit |-> <<>>]
      ELSE IF f = "debug_request"
        THEN debug_request_in(h, Str(<<"G","E","T">>), url, data, data, data,
                              Str(<<"t","e","s","t","1","2","3">>))
      ELSE IF f = "error_with_context"
        THEN error_with_context_in(h, Str(<<"T","e","s","t"," ","e","r","r","o","r">>), RequestError,
                                   Str(<<"t","e","s","t","1","2","3">>), data)
      ELSE IF f = "info_with_context"
        THEN info_with_context_in(h, Str(<<"T","e","s","t">>), Str(<<"t","e","s","t","1","2","3">>), data)
      ELSE security_event_in(h, Str(<<"A","U","T","H","_","F","A","I","L","U","R","E">>),
                             Str(<<"I","n","v","a","l","i","d"," ","c","r","e","d","e","n","t","i","a","l","s">>), Str(<<"W","A","R","N","I","N","G">>),
                             Str(<<"t","e","s","t","1","2","3">>), data)

InitShared ==
  /\ pc = "shared"
  /\ fn = "SecurityFilter"
  /\ heap \in SharedHeaps
  \* the caller's objects as they are before any call
  /\ args = [heap |-> heap]
  /\ ret = Pending
  /\ log = <<>>
  /\ requests = [r \in Calls |-> Idle]
  /\ uuids = <<>>
  /\ client = FALSE
  /\ services = <<>> /\ tools = <<>> /\ inits = <<>>
  /\ http_clients = <<>> /\ held = 0 /\ closing = <<>>
  /\ tasks = [t \in Tasks |-> IdleTask]

\* One call, from its start to its end.
Invoke(t, f) ==
  /\ tasks[t].pc = "idle"
  \* the calls are numbered in the order they are made
  /\ \A q \in Tasks : q < t => tasks[q].pc # "idle"
  /\ heap' = invoke(f, heap).heap
  /\ tasks' = [tasks EXCEPT ![t] =
                 [pc |-> "done", fn |-> f, ret |-> invoke(f, heap).ret,
                  emit |-> invoke(f, heap).emit]]
  /\ UNCHANGED <<pc, fn, args, ret, log, requests, uuids, client, toolVars,
                 lifecycleVars>>

NextShared == \E t \in Tasks, f \in SharedFunctions : Invoke(t, f)

SpecShared == InitShared /\ [][NextShared]_vars

Returned(f) == pc = "done" /\ fn = f

----------------------------------------------------------------------------
(* Claims about the sensitivity classifier.                                *)

\* The key with '_' and '-' dropped and every letter in lower case.
NormalForm(k) ==
  LET kept == SelectSeq(k, LAMBDA c : c \notin {"_", "-"})
  IN  [i \in DOMAIN kept |-> lower_char(kept[i])]

Occurs(term, s) ==
  \E i \in 1..(Len(s) - Len(term) + 1) : SubSeq(s, i, i + Len(term) - 1) = term

ExactTerms ==
  { <<"a","p","i","k","e","y">>,
    <<"a","c","c","e","s","s","k","e","y">>,
    <<"s","e","c","r","e","t","k","e","y">>,
    <<"c","l","i","e","n","t","s","e","c","r","e","t">>,
    <<"c","l","i","e","n","t","i","d">>,
    <<"t","e","n","a","n","t","i","d">> }

BroadTerms ==
  { <<"p","a","s","s","w","o","r","d">>,
    <<"s","e","c","r","e","t">>,
    <<"t","o","k","e","n">>,
    <<"c","r","e","d","e","n","t","i","a","l">>,
    <<"a","u","t","h">>,
    <<"b","e","a","r","e","r">>,
    <<"a","u","t","h","o","r","i","z","a","t","i","o","n">>,
    <<"p","a","t">> }

Classified(k) ==
  /\ k # <<>>
  /\ \/ NormalForm(k) \in ExactTerms
     \/ \E term \in BroadTerms : Occurs(term, NormalForm(k))

\* C1: is_sensitive_key(k) is true exactly when k is not empty and its
\* normal form (lower case, '_' and '-' removed) is one of the exact terms
\* or contains one of the broad terms; it is false for every other key and
\* for the empty key.
C1_ClassifyKeyExactly ==
  Returned("is_sensitive_key") => ret = Bool(Classified(args.key))

\* C1 witness: "api-Key" is classified by an exact term after normalising.
C1_Witness ==
  /\ Returned("is_sensitive_key")
  /\ args.key = <<"a","p","i","-","K","e","y">>
  /\ ret = Bool(TRUE)

pattern == <<"p","a","t","t","e","r","n">>

author == <<"a","u","t","h","o","r">>

\* C2 as stated: the keys "pattern" and "author", which only contain "pat"
\* and "auth", are classified not sensitive.
C2_BenignWordsNotSensitive ==
  (Returned("is_sensitive_key") /\ args.key \in {pattern, author})
    => ret = Bool(FALSE)

\* C2 amended: "pat" and "auth" are matched as substrings, so every key
\* whose normal form contains one of them, "pattern" and "author" included,
\* is classified sensitive.
C2_PatAuthMatchedAsSubstrings ==
  (/\ Returned("is_sensitive_key")
   /\ \/ args.key \in {pattern, author}
      \/ Occurs(<<"p","a","t">>, NormalForm(args.key))
      \/ Occurs(<<"a","u","t","h">>, NormalForm(args.key)))
    => ret = Bool(TRUE)

\* C2 witness: the call on "pattern" has returned true.
C2_Witness ==
  Returned("is_sensitive_key") /\ args.key = pattern /\ ret = Bool(TRUE)

AllIn(s, from, to, cls) == \A i \in from..to : s[i] \in cls

Base64Shape(s) == Len(s) = 52 /\ AllIn(s, 1, 52, Base64Chars)

VendorShape(s) ==
  /\ Len(s) >= 40
  /\ Len(s) <= 255
  /\ SubSeq(s, 1, 2) = <<"g","h">>
  /\ s[3] \in {"p","o","u","s","r"}
  /\ s[4] = "_"
  /\ AllIn(s, 5, Len(s), WordChars)

AlnumShape(s) == Len(s) >= 20 /\ AllIn(s, 1, Len(s), AlnumChars)

GuidShape(s) ==
  /\ Len(s) = 36
  /\ \A i \in 1..36 :
       IF i \in {9, 14, 19, 24} THEN s[i] = "-" ELSE s[i] \in HexChars

SecretShaped(v) ==
  /\ v.t = "str"
  /\ Len(v.v) >= 10
  /\ \/ Base64Shape(v.v)
     \/ VendorShape(v.v)
     \/ AlnumShape(v.v)
     \/ GuidShape(v.v)

\* C3: is_sensitive_value(v) is true exactly when v is a string of at least
\* 10 characters whose whole text has one of the four signature shapes; a
\* string that only contains a shape, a shorter string and a value that is
\* no string give false.
C3_ClassifyValueExactly ==
  Returned("is_sensitive_value") => ret = Bool(SecretShaped(args.value))

\* C3 witness: 52 base64 characters followed by one more character are
\* classified false, and so is a value that is no string.
C3_Witness ==
  /\ Returned("is_sensitive_value")
  /\ ret = Bool(FALSE)
  /\ args.value = Str(Rep("+", 52) \o <<"!">>)

----------------------------------------------------------------------------
(* Claims about the redaction of nested structures.                        *)

Filtered == Returned("filter_sensitive_dict")

FilteredDict == Filtered /\ args.data.t = "dict"

\* In the mapping `in` and in every mapping the walk recurses into, the
\* output holds the placeholder under each sensitive key.
RECURSIVE SensitiveKeysMasked(_, _, _, _)
SensitiveKeysMasked(in, out, ph, deep) ==
  /\ out.t = "dict"
  /\ Len(out.v) = Len(in.v)
  /\ \A i \in DOMAIN in.v :
       LET k == in.v[i].k
           x == in.v[i].v
           y == out.v[i].v
       IN  /\ out.v[i].k = k
           /\ IF is_sensitive_key(k) THEN y = ph
              ELSE IF deep /\ x.t = "dict"
                THEN SensitiveKeysMasked(x, y, ph, deep)
              ELSE IF deep /\ x.t = "list"
                THEN /\ y.t = "list"
                     /\ Len(y.v) = Len(x.v)
                     /\ \A j \in DOMAIN x.v :
                          x.v[j].t = "dict"
                            => SensitiveKeysMasked(x.v[j], y.v[j], ph, deep)
              ELSE TRUE

\* C4: in every mapping filter_sensitive_dict processes (the root and each
\* nested mapping it recurses into), the value under a sensitive key is
\* exactly the placeholder of the call, whatever the original value was and
\* whether deep_scan is on or off.
C4_SensitiveKeyGetsPlaceholder ==
  FilteredDict =>
    SensitiveKeysMasked(args.data, ret, args.replacement, args.deep_scan)

\* C4 witness: a None under "password", a custom placeholder, deep_scan off.
C4_Witness ==
  /\ Filtered
  /\ args = [data |-> Dict(<<Item(password, None)>>),
             replacement |-> XMASK, deep_scan |-> FALSE]
  /\ ret = Dict(<<Item(password, XMASK)>>)

\* C5: filtering is idempotent: filtering the returned structure again,
\* with the same placeholder and deep_scan, returns it unchanged.
C5_Idempotent ==
  Filtered =>
    filter_sensitive_dict(ret, args.replacement, args.deep_scan) = ret

\* C5 witness: the first pass wrote, under a key that is not sensitive, a
\* placeholder that itself has the shape of a secret.
C5_Witness ==
  /\ Filtered
  /\ args = [data |-> Dict(<<Item(name, SecretText)>>),
             replacement |-> XMASK, deep_scan |-> TRUE]
  /\ ret = Dict(<<Item(name, XMASK)>>)
  /\ is_sensitive_value(XMASK)

\* Every mapping reachable in v through mappings and sequences holds the
\* placeholder under each of its sensitive keys.
RECURSIVE AllMasked(_, _)
AllMasked(v, ph) ==
  IF v.t = "dict"
    THEN \A i \in DOMAIN v.v :
           IF is_sensitive_key(v.v[i].k) THEN v.v[i].v = ph
           ELSE AllMasked(v.v[i].v, ph)
  ELSE IF v.t = "list" THEN \A j \in DOMAIN v.v : AllMasked(v.v[j], ph)
  ELSE TRUE

\* C6: with deep_scan on, no mapping reachable from the root of the output
\* through nested mappings and sequences still holds an original value
\* under a sensitive key: each such position holds the placeholder.
C6_NoSensitiveValueLeft ==
  (FilteredDict /\ args.deep_scan) => AllMasked(ret, args.replacement)

\* C7: with deep_scan off only the values under sensitive keys of the top
\* mapping are replaced; every other value is returned as it was, nested
\* mappings, sequences and secret-shaped strings included.
C7_ShallowOnlyTopLevelKeys ==
  (FilteredDict /\ ~args.deep_scan) =>
    /\ ret.t = "dict"
    /\ Len(ret.v) = Len(args.data.v)
    /\ \A i \in DOMAIN args.data.v :
         /\ ret.v[i].k = args.data.v[i].k
         /\ ret.v[i].v = IF is_sensitive_key(args.data.v[i].k)
                           THEN args.replacement
                           ELSE args.data.v[i].v

\* C7 witness: deep_scan off, a secret-shaped string and a sensitive key
\* next to each other at the top level.
C7_Witness ==
  /\ Filtered
  /\ ~args.deep_scan
  /\ args.data = Dict(<<Item(name, SecretText), Item(password, PlainText)>>)
  /\ ret = Dict(<<Item(name, SecretText), Item(password, args.replacement)>>)

\* In `in` and in every mapping reached through values of mappings, each
\* sequence under a key that is not sensitive is filtered item by item.
RECURSIVE SequencesFiltered(_, _, _)
SequencesFiltered(in, out, ph) ==
  /\ out.t = "dict"
  /\ Len(out.v) = Len(in.v)
  /\ \A i \in DOMAIN in.v :
       LET x == in.v[i].v
           y == out.v[i].v
       IN  IF is_sensitive_key(in.v[i].k) THEN TRUE
           ELSE IF x.t = "dict" THEN SequencesFiltered(x, y, ph)
           ELSE IF x.t = "list"
             THEN /\ y.t = "list"
                  /\ Len(y.v) = Len(x.v)
                  /\ \A j \in DOMAIN x.v :
                       y.v[j] = IF x.v[j].t = "dict"
                                  THEN filter_sensitive_dict(x.v[j], ph, TRUE)
                                  ELSE x.v[j]
           ELSE TRUE

\* C8: with deep_scan on, a sequence under a key that is not sensitive
\* comes out with the same length and order, each mapping item replaced by
\* its own redaction and each other item unchanged.
C8_SequenceFilteredItemwise ==
  (FilteredDict /\ args.deep_scan) =>
    SequencesFiltered(args.data, ret, args.replacement)

\* C8 witness: a sequence of a mapping with a sensitive key and a string.
C8_Witness ==
  /\ Filtered
  /\ args.deep_scan
  /\ args.data =
       Dict(<<Item(name, List(<<Dict(<<Item(password, PlainText)>>),
                                PlainText>>))>>)
  /\ ret =
       Dict(<<Item(name, List(<<Dict(<<Item(password, args.replacement)>>),
                                PlainText>>))>>)

KeySet(d) == { d.v[i].k : i \in DOMAIN d.v }

Lookup(d, k) == d.v[CHOOSE i \in DOMAIN d.v : d.v[i].k = k].v

\* The output has the keys of the input, at every level the walk recurses
\* into, and the plain values under keys that are not sensitive.
RECURSIVE FrameKept(_, _, _)
FrameKept(in, out, deep) ==
  /\ out.t = "dict"
  /\ Len(out.v) = Len(in.v)
  /\ KeySet(out) = KeySet(in)
  /\ \A k \in KeySet(in) :
       LET x == Lookup(in, k)
           y == Lookup(out, k)
       IN  IF is_sensitive_key(k) THEN TRUE
           ELSE IF x.t = "dict" THEN deep => FrameKept(x, y, deep)
           ELSE IF x.t = "list"
             THEN deep =>
                    /\ y.t = "list"
                    /\ Len(y.v) = Len(x.v)
                    /\ \A j \in DOMAIN x.v :
                         x.v[j].t = "dict" => FrameKept(x.v[j], y.v[j], deep)
           ELSE IF SecretShaped(x) THEN TRUE
           ELSE y = x

\* C9: the output mapping has exactly the keys of the input, at every
\* nesting level the walk recurses into, and every value under a key that
\* is not sensitive and that is no mapping, no sequence and no
\* secret-shaped string equals the input value.
C9_KeysAndPlainValuesKept ==
  FilteredDict => FrameKept(args.data, ret, args.deep_scan)

\* C9 witness: a sensitive key and a None under a plain key.
C9_Witness ==
  /\ Filtered
  /\ args.data = Dict(<<Item(password, PlainText), Item(name, None)>>)
  /\ ret = Dict(<<Item(password, args.replacement), Item(name, None)>>)

\* C10: filter_sensitive_dict never raises: an input that is no mapping is
\* returned unchanged and a mapping, the empty one and one holding values
\* of foreign types included, gives a mapping.
C10_NeverRaises ==
  Filtered =>
    /\ ~Raised(ret)
    /\ args.data.t # "dict" => ret = args.data
    /\ args.data.t = "dict" => ret.t = "dict"

\* C10 witness: a sequence at the top level is returned as it is, with the
\* sensitive key inside it.
C10_Witness ==
  /\ Filtered
  /\ args.data = List(<<Dict(<<Item(password, PlainText)>>)>>)
  /\ ret = args.data

----------------------------------------------------------------------------
(* Claims about the redaction of URLs.                                     *)

\* The positions of the character c in s.
Positions(s, c) == { i \in DOMAIN s : s[i] = c }

Least(S) == CHOOSE x \in S : \A y \in S : x <= y

\* The text of s before the first c.
Before(s, c) == SubSeq(s, 1, Least(Positions(s, c)) - 1)

\* The text of s after the first c.
After(s, c) == SubSeq(s, Least(Positions(s, c)) + 1, Len(s))

\* The n-th (n >= 1) of the pieces of s that the character c separates.
Piece(s, c, n) ==
  LET cuts  == Positions(s, c) \cup {0, Len(s) + 1}
      from  == CHOOSE x \in cuts : Cardinality({ y \in cuts : y < x }) = n - 1
      to    == CHOOSE x \in cuts : Cardinality({ y \in cuts : y < x }) = n
  IN  SubSeq(s, from + 1, to - 1)

PieceCount(s, c) == Cardinality(Positions(s, c)) + 1

\* What a parameter of the query string is to become.
RedactedParam(p, ph) ==
  IF Positions(p, "=") # {} /\ Classified(Before(p, "="))
    THEN Before(p, "=") \o <<"=">> \o ph
    ELSE p

UrlRedacted(url, out, ph) ==
  IF Positions(url, "?") = {} THEN out = url
  ELSE
    /\ Positions(out, "?") # {}
    /\ Before(out, "?") = Before(url, "?")
    /\ PieceCount(After(out, "?"), "&") = PieceCount(After(url, "?"), "&")
    /\ \A n \in 1..PieceCount(After(url, "?"), "&") :
         Piece(After(out, "?"), "&", n)
           = RedactedParam(Piece(After(url, "?"), "&", n), ph)

\* C11: filter_url_params returns a URL without '?' unchanged; otherwise it
\* keeps the text before the first '?' and the number and order of the
\* '&'-separated parameters, rewrites each parameter with '=' and a
\* sensitive key to key=placeholder, also when its value is empty, and
\* leaves every other parameter, a bare one included, as it is.
C11_UrlQueryRedacted ==
  Returned("filter_url_params") =>
    /\ ret.t = "str"
    /\ UrlRedacted(args.url.v, ret.v, args.replacement.v)

\* C11 witness: a sensitive parameter with an empty value next to a bare
\* parameter whose text is a sensitive term.
C11_Witness ==
  /\ Returned("filter_url_params")
  /\ args.url = Str(<<"h","t","t","p","s",":","/","/","x","/","y","?","a","p","i","_","k","e","y","=","&","t","o","k","e","n">>)
  /\ args.replacement = FILTERED
  /\ ret = Str(<<"h","t","t","p","s",":","/","/","x","/","y","?","a","p","i","_","k","e","y","=","[","F","I","L","T","E","R","E","D","]","&","t","o","k","e","n">>)

----------------------------------------------------------------------------
(* Claims about the redacting logger.                                      *)

\* The one line a logger call that returned has emitted (the empty text if
\* it emitted none).
Line == IF Len(log) >= 1 THEN log[Len(log)].msg ELSE <<>>

Emitted(f) == Returned(f) /\ ret = None /\ Len(log) = 1

\* A debug_request call, made with arguments of the declared types, has
\* returned or raised.
RequestLogged ==
  /\ Returned("debug_request")
  /\ args.url.t = "str"
  /\ args.params.t \in {"NoneType", "dict"}
  /\ args.headers.t \in {"NoneType", "dict"}
  /\ args.json_data.t \in {"NoneType", "dict"}

\* The call returned and the log holds its one line.
OneLineEmitted == ret = None /\ Len(log) = 1

IsDict(value) == value.t = "dict"

\* Every sensitive key of the mapping d shows ph in the line, and its
\* original text does not occur in the line.
KeysMaskedInLine(d, ph, line) ==
  IsDict(d) =>
    \A i \in DOMAIN d.v :
      Classified(d.v[i].k) =>
        /\ Occurs(d.v[i].k \o <<"=">> \o ph, line)
        /\ (d.v[i].v.t = "str" /\ d.v[i].v.v # <<>>)
             => ~Occurs(d.v[i].v.v, line)

\* The same one level down: the sensitive keys of a mapping that is the
\* value of a key that is not sensitive.
NestedKeysMaskedInLine(d, ph, line) ==
  IsDict(d) =>
    \A i \in DOMAIN d.v :
      (~Classified(d.v[i].k) /\ IsDict(d.v[i].v)) =>
        \A j \in DOMAIN d.v[i].v.v :
          LET inner == d.v[i].v.v[j]
          IN  Classified(inner.k) =>
                /\ Occurs(<<"'">> \o inner.k \o <<"'",":"," ","'">> \o ph \o <<"'">>, line)
                /\ (inner.v.t = "str" /\ inner.v.v # <<>>)
                     => ~Occurs(inner.v.v, line)

\* Every sensitive parameter of the query string of url shows ph in the
\* line, its original value does not occur, and every other parameter is
\* there as it was.
QueryMaskedInLine(url, ph, line) ==
  (url.t = "str" /\ Positions(url.v, "?") # {}) =>
    LET query == After(url.v, "?")
    IN  \A n \in 1..PieceCount(query, "&") :
          LET p == Piece(query, "&", n)
          IN  IF Positions(p, "=") # {} /\ Classified(Before(p, "="))
                THEN /\ Occurs(Before(p, "=") \o <<"=">> \o ph, line)
                     /\ After(p, "=") # <<>> => ~Occurs(After(p, "="), line)
                ELSE Occurs(p, line)

\* Every text value under a key of d that is not sensitive is in the line
\* as it was given.
PlainValuesInLine(d, line) ==
  IsDict(d) =>
    \A i \in DOMAIN d.v :
      (~Classified(d.v[i].k) /\ d.v[i].v.t = "str") =>
        Occurs(d.v[i].k \o <<"=">> \o d.v[i].v.v, line)

\* The same, but a value that is itself shaped like a secret shows ph.
PlainOrSecretShapedInLine(d, ph, line) ==
  IsDict(d) =>
    \A i \in DOMAIN d.v :
      (~Classified(d.v[i].k) /\ d.v[i].v.t = "str") =>
        IF SecretShaped(d.v[i].v)
          THEN /\ Occurs(d.v[i].k \o <<"=">> \o ph, line)
               /\ ~Occurs(d.v[i].v.v, line)
          ELSE Occurs(d.v[i].k \o <<"=">> \o d.v[i].v.v, line)

\* The sensitive positions of a request line.
SensitivePositionsMasked(line) ==
  /\ KeysMaskedInLine(args.params, FILTERED.v, line)
  /\ KeysMaskedInLine(args.headers, REDACTED.v, line)
  /\ KeysMaskedInLine(args.json_data, FILTERED.v, line)
  /\ NestedKeysMaskedInLine(args.params, FILTERED.v, line)
  /\ NestedKeysMaskedInLine(args.headers, REDACTED.v, line)
  /\ NestedKeysMaskedInLine(args.json_data, FILTERED.v, line)
  /\ QueryMaskedInLine(args.url, FILTERED.v, line)

\* C12, as stated: the line of a debug_request call shows the placeholder,
\* and never the original value, at every sensitive key of params, headers,
\* body and URL query, and every value under a key that is not sensitive as
\* it was given.
C12_PlainValuesAsGiven ==
  RequestLogged =>
    /\ OneLineEmitted
    /\ SensitivePositionsMasked(Line)
    /\ PlainValuesInLine(args.params, Line)
    /\ PlainValuesInLine(args.headers, Line)
    /\ PlainValuesInLine(args.json_data, Line)

\* C12, amended: the line of a debug_request call shows the placeholder, and
\* never the original value, at every sensitive key of params, headers, body
\* and URL query; a text value under a key that is not sensitive is there as
\* given unless the value is itself shaped like a secret, and then the line
\* shows the placeholder in its place.
C12_RequestLineRedacted ==
  RequestLogged =>
    /\ OneLineEmitted
    /\ SensitivePositionsMasked(Line)
    /\ PlainOrSecretShapedInLine(args.params, FILTERED.v, Line)
    /\ PlainOrSecretShapedInLine(args.headers, REDACTED.v, Line)
    /\ PlainOrSecretShapedInLine(args.json_data, FILTERED.v, Line)

C12_Witness ==
  /\ Emitted("debug_request")
  /\ args.params = Dict(<<Item(name, SecretText)>>)
  /\ args.url = Str(<<"h","t","t","p","s",":","/","/","x","/","y","?","a","p","i","_","k","e","y","=">> \o urlsecret)
  /\ args.headers = None /\ args.json_data = None
  /\ args.correlation_id = Str(<<"t","e","s","t","1","2","3">>)
  /\ Line = <<"[","t","e","s","t","1","2","3","]"," ","H","T","T","P"," ","R","e","q","u","e","s","t",":"," ","m","e","t","h","o","d","=","P","O","S","T",","," ">>
              \o <<"u","r","l","=","h","t","t","p","s",":","/","/","x","/","y","?","a","p","i","_","k","e","y","=","[","F","I","L","T","E","R","E","D","]",","," ","p","a","r","a","m","s","=","(","n","a","m","e","=","[","F","I","L","T","E","R","E","D","]",")">>

\* The snapshot holds, under the key `part`, the mapping `in` with ph in
\* place of every sensitive value (a value under a sensitive key, a text
\* shaped like a secret, a value under a sensitive key of a nested mapping)
\* and every other text as it was.
SectionRedacted(in, snapshot, part, ph) ==
  (IsDict(in) /\ in.v # <<>>) =>
    /\ part \in KeySet(snapshot)
    /\ LET out == Lookup(snapshot, part)
       IN  /\ IsDict(out)
           /\ Len(out.v) = Len(in.v)
           /\ \A i \in DOMAIN in.v :
                LET x == in.v[i].v
                    y == out.v[i].v
                IN  /\ out.v[i].k = in.v[i].k
                    /\ IF Classified(in.v[i].k) THEN y = ph
                       ELSE IF x.t = "str"
                         THEN y = IF SecretShaped(x) THEN ph ELSE x
                       ELSE IF IsDict(x)
                         THEN /\ IsDict(y)
                              /\ Len(y.v) = Len(x.v)
                              /\ \A j \in DOMAIN x.v :
                                   Classified(x.v[j].k) => y.v[j].v = ph
                       ELSE TRUE

\* C13: in the snapshot sanitize_for_logging returns, each sensitive value
\* of headers is "[REDACTED]", each sensitive value of params and of the
\* body is "[FILTERED]" and so is each sensitive parameter of the URL query
\* (so the two placeholders are never swapped: they differ); a header that
\* is not sensitive, such as Content-Type, keeps its value.
C13_PlaceholderPerSection ==
  (Returned("sanitize_for_logging") /\ ~Raised(ret)) =>
    /\ IsDict(ret)
    /\ SectionRedacted(args.headers, ret, <<"h","e","a","d","e","r","s">>, Str(<<"[","R","E","D","A","C","T","E","D","]">>))
    /\ SectionRedacted(args.params, ret, <<"p","a","r","a","m","s">>, Str(<<"[","F","I","L","T","E","R","E","D","]">>))
    /\ SectionRedacted(args.json_data, ret, <<"j","s","o","n","_","d","a","t","a">>, Str(<<"[","F","I","L","T","E","R","E","D","]">>))
    /\ <<"u","r","l">> \in KeySet(ret)
    /\ Lookup(ret, <<"u","r","l">>).t = "str"
    /\ UrlRedacted(args.url.v, Lookup(ret, <<"u","r","l">>).v, <<"[","F","I","L","T","E","R","E","D","]">>)

\* C13 witness: the request of the test, with a secret in each of the four
\* places.
C13_Witness ==
  /\ Returned("sanitize_for_logging")
  /\ args.headers = Dict(<<Item(<<"A","u","t","h","o","r","i","z","a","t","i","o","n">>, Str(headersecret)),
                           Item(<<"C","o","n","t","e","n","t","-","T","y","p","e">>, Str(<<"a","p","p","l","i","c","a","t","i","o","n","/","j","s","o","n">>))>>)
  /\ ret = Dict(<<Item(<<"m","e","t","h","o","d">>, Str(<<"P","O","S","T">>)),
                  Item(<<"u","r","l">>, Str(<<"h","t","t","p","s",":","/","/","x","/","y","?","a","p","i","_","k","e","y","=","[","F","I","L","T","E","R","E","D","]">>)),
                  Item(<<"p","a","r","a","m","s">>,
                       Dict(<<Item(<<"p","r","o","j","e","c","t">>, Str(<<"t","e","s","t">>)),
                              Item(<<"t","o","k","e","n">>, Str(<<"[","F","I","L","T","E","R","E","D","]">>))>>)),
                  Item(<<"h","e","a","d","e","r","s">>,
                       Dict(<<Item(<<"A","u","t","h","o","r","i","z","a","t","i","o","n">>, Str(<<"[","R","E","D","A","C","T","E","D","]">>)),
                              Item(<<"C","o","n","t","e","n","t","-","T","y","p","e">>,
                                   Str(<<"a","p","p","l","i","c","a","t","i","o","n","/","j","s","o","n">>))>>)),
                  Item(<<"j","s","o","n","_","d","a","t","a">>,
                       Dict(<<Item(<<"u","s","e","r","n","a","m","e">>, PlainText),
                              Item(password, Str(<<"[","F","I","L","T","E","R","E","D","]">>))>>))>>)

\* Where term first starts in s, 0 if nowhere.
Index(term, s) ==
  IF Occurs(term, s)
    THEN Least({ i \in 1..(Len(s) - Len(term) + 1) :
                   SubSeq(s, i, i + Len(term) - 1) = term })
    ELSE 0

StartsWith(s, term) == Len(s) >= Len(term) /\ SubSeq(s, 1, Len(term)) = term

\* The line from 'HTTP Request: ' on (the whole line if that is not in it).
RequestText(line) ==
  IF Index(<<"H","T","T","P"," ","R","e","q","u","e","s","t",":"," ">>, line) = 0 THEN line
  ELSE SubSeq(line, Index(<<"H","T","T","P"," ","R","e","q","u","e","s","t",":"," ">>, line), Len(line))

\* The places in seq that are not 0 are in increasing order.
Increasing(seq) ==
  \A i, j \in DOMAIN seq : (i < j /\ seq[i] # 0 /\ seq[j] # 0) => seq[i] < seq[j]

\* The request line is 'HTTP Request: method=<M>, url=<U>' followed by the
\* sections params=(...), headers=(...) and <label>=(...), in this order,
\* each after a ', ', with the body of the request in the last one.
RequestForm(line, label) ==
  LET text == RequestText(line)
      places == << Index(<<","," ","u","r","l","=">>, text),
                   Index(<<","," ","p","a","r","a","m","s","=","(">>, text),
                   Index(<<","," ","h","e","a","d","e","r","s","=","(">>, text),
                   Index(<<","," ">> \o label \o <<"=","(">>, text) >>
  IN  /\ StartsWith(text, <<"H","T","T","P"," ","R","e","q","u","e","s","t",":"," ","m","e","t","h","o","d","=">> \o py_str(args.method)
                            \o <<","," ","u","r","l","=">>)
      /\ places[1] # 0
      /\ Increasing(places)
      /\ (IsDict(args.json_data) /\ args.json_data.v # <<>>) =>
           /\ places[4] # 0
           /\ text[Len(text)] = ")"
           /\ \A i \in DOMAIN args.json_data.v :
                Occurs(args.json_data.v[i].k \o <<"=">>,
                       SubSeq(text, places[4], Len(text)))

\* C14, as stated: the request line is 'HTTP Request: ' followed by the
\* sections method, url, params, headers and body in this order, the last
\* one labelled 'body'.
C14_BodySectionLabelledBody ==
  RequestLogged => OneLineEmitted /\ RequestForm(Line, <<"b","o","d","y">>)

\* C14, amended: the request line is 'HTTP Request: ' followed by the
\* sections method, url, params, headers and body in this order, the last
\* one labelled 'json_data'.
C14_RequestLineForm ==
  RequestLogged => OneLineEmitted /\ RequestForm(Line, <<"j","s","o","n","_","d","a","t","a">>)

\* C14 witness: a request with params, headers and a body.
C14_Witness ==
  /\ Emitted("debug_request")
  /\ args.correlation_id = None
  /\ Line = <<"H","T","T","P"," ","R","e","q","u","e","s","t",":"," ","m","e","t","h","o","d","=","P","O","S","T",","," ","u","r","l","=","h","t","t","p","s",":","/","/","x","/","y",","," ">>
              \o <<"p","a","r","a","m","s","=","(","p","r","o","j","e","c","t","=","t","e","s","t",","," ","t","o","k","e","n","=","[","F","I","L","T","E","R","E","D","]",")",","," ">>
              \o <<"h","e","a","d","e","r","s","=","(","A","u","t","h","o","r","i","z","a","t","i","o","n","=","[","R","E","D","A","C","T","E","D","]",","," ">>
              \o <<"C","o","n","t","e","n","t","-","T","y","p","e","=","a","p","p","l","i","c","a","t","i","o","n","/","j","s","o","n",")",","," ">>
              \o <<"j","s","o","n","_","d","a","t","a","=","(","u","s","e","r","n","a","m","e","=","j","o","h","n",","," ","p","a","s","s","w","o","r","d","=","[","F","I","L","T","E","R","E","D","]",")">>

\* The request line has a section of this label.
HasSection(line, label) ==
  Occurs(<<","," ">> \o label \o <<"=","(">>, RequestText(line))

\* C15: the request line always has its method and url sections, and it has
\* the params, the headers and the body section exactly when the argument
\* was supplied (is not None): a supplied mapping, an empty one too, is
\* rendered and an absent one is left out.
C15_SectionIffSupplied ==
  RequestLogged =>
    /\ OneLineEmitted
    /\ Occurs(<<"m","e","t","h","o","d","=">>, RequestText(Line))
    /\ Occurs(<<","," ","u","r","l","=">>, RequestText(Line))
    /\ HasSection(Line, <<"p","a","r","a","m","s">>) <=> args.params # None
    /\ HasSection(Line, <<"h","e","a","d","e","r","s">>) <=> args.headers # None
    /\ HasSection(Line, <<"j","s","o","n","_","d","a","t","a">>) <=> args.json_data # None

\* 'Error: <message> - <ErrorKind>: <error text>'
ErrorText ==
  <<"E","r","r","o","r",":"," ">> \o py_str(args.message) \o <<" ","-"," ">> \o type_name(args.error)
    \o <<":"," ">> \o error_text(args.error)

\* '[<correlation_id>] ' if there is to be a prefix, else nothing.
Prefix(prefixed) ==
  IF prefixed THEN <<"[">> \o py_str(args.correlation_id) \o <<"]"," ">> ELSE <<>>

\* What follows `head` in the line (nothing if the line is not longer).
Rest(line, head) ==
  IF Len(line) > Len(head) THEN SubSeq(line, Len(head) + 1, Len(line))
  ELSE <<>>

\* The context part shows the key k with this text as its value.
Shown(k, text, part) == Occurs(<<"'">> \o k \o <<"'",":"," ">> \o text, part)

Masked == <<"'","[","F","I","L","T","E","R","E","D","]","'">>

\* Every sensitive keyword of the context shows the placeholder.
SensitiveKeywordsMasked(context, part) ==
  \A i \in DOMAIN context.v :
    Classified(context.v[i].k) =>
      /\ Shown(context.v[i].k, Masked, part)
      /\ (context.v[i].v.t = "str" /\ context.v[i].v.v # <<>>)
           => ~Occurs(context.v[i].v.v, part)

\* Every keyword that is not sensitive shows the value passed under it.
PlainKeywordsAsGiven(context, part) ==
  \A i \in DOMAIN context.v :
    ~Classified(context.v[i].k) =>
      Shown(context.v[i].k, py_repr(context.v[i].v), part)

\* Every keyword that is not sensitive shows the value passed under it,
\* but the placeholder for a text shaped like a secret and for the value
\* of a sensitive key of a mapping passed under it.
PlainKeywordsRedacted(context, part) ==
  \A i \in DOMAIN context.v :
    LET k == context.v[i].k
        x == context.v[i].v
    IN  ~Classified(k) =>
          IF SecretShaped(x)
            THEN Shown(k, Masked, part) /\ ~Occurs(x.v, part)
          ELSE IF IsDict(x)
            THEN /\ Shown(k, <<"{">>, part)
                 /\ \A j \in DOMAIN x.v :
                      IF Classified(x.v[j].k)
                        THEN /\ Shown(x.v[j].k, Masked, part)
                             /\ (x.v[j].v.t = "str" /\ x.v[j].v.v # <<>>)
                                  => ~Occurs(x.v[j].v.v, part)
                        ELSE x.v[j].v.t = "str" /\ ~SecretShaped(x.v[j].v)
                               => Shown(x.v[j].k, py_repr(x.v[j].v), part)
          ELSE Shown(k, py_repr(x), part)

\* The log holds one record, of this level, whose text is `text` after the
\* prefix, followed by ' | Context: {...}' exactly when there is a keyword.
OneRecord(level, text, prefixed) ==
  /\ Len(log) = 1
  /\ log[1].level = level
  /\ StartsWith(Line, Prefix(prefixed) \o text)
  /\ IF args.context.v = <<>>
       THEN Line = Prefix(prefixed) \o text
       ELSE StartsWith(Rest(Line, Prefix(prefixed) \o text), <<" ","|"," ","C","o","n","t","e","x","t",":"," ","{">>)

ContextPart(text, prefixed) == Rest(Line, Prefix(prefixed) \o text)

Folded(severity) == [i \in DOMAIN severity |-> lower_char(severity[i])]

\* Where a security event of this severity is to go.
Routed(severity) ==
  IF Folded(severity) = <<"e","r","r","o","r">> THEN "ERROR"
  ELSE IF Folded(severity) = <<"w","a","r","n","i","n","g">> THEN "WARNING"
  ELSE "INFO"

\* C17: security_event emits exactly one record per call, at error level
\* for the severity ERROR, at warning level for WARNING, in any mix of
\* cases, and at info level for every other severity (the default "INFO"
\* among them); the record shows the placeholder for every sensitive
\* context keyword and never the value passed under it.
C17_SecurityEventRouted ==
  (Returned("security_event") /\ args.severity.t = "str") =>
    /\ ret = None
    /\ Len(log) = 1
    /\ log[1].level = Routed(args.severity.v)
    /\ StartsWith(Rest(Line, Prefix(truthy(args.correlation_id))),
                  <<"S","E","C","U","R","I","T","Y","_","E","V","E","N","T",":"," ">> \o py_str(args.event_type) \o <<" ","|"," ">>
                    \o py_str(args.description))
    /\ SensitiveKeywordsMasked(args.context, Line)

\* C17 witness: a warning in mixed case, with an api_key in its context.
C17_Witness ==
  /\ Returned("security_event")
  /\ args.severity = Str(<<"W","a","r","n","i","n","g">>)
  /\ log = <<Record("WARNING",
               <<"[","t","e","s","t","1","2","3","]"," ","S","E","C","U","R","I","T","Y","_","E","V","E","N","T",":"," ","A","U","T","H","_","F","A","I","L","U","R","E"," ","|"," ","I","n","v","a","l","i","d"," ","c","r","e","d","e","n","t","i","a","l","s">>
                 \o <<" ","|"," ","C","o","n","t","e","x","t",":"," ","{","'","a","p","i","_","k","e","y","'",":"," ","'","[","F","I","L","T","E","R","E","D","]","'",","," ">>
                 \o <<"'","p","r","o","j","e","c","t","'",":"," ","'","t","e","s","t","_","p","r","o","j","e","c","t","'","}">>)>>

LoggerMethods ==
  { "debug_request", "debug_response", "error_with_context",
    "info_with_context", "security_event" }

\* C18: no method of the logger raises on malformed input: with an optional
\* argument absent, with params, headers or body that is no mapping, with a
\* severity or a url of an unexpected type, the call returns and has
\* emitted its record.
C18_LoggerNeverRaises ==
  (pc = "done" /\ fn \in LoggerMethods) =>
    /\ ~Raised(ret)
    /\ ret = None
    /\ Len(log) = 1

----------------------------------------------------------------------------
(* Claims about the correlation ids.                                       *)

\* The calls of _make_request that have been made.
Started == { r \in Calls : requests[r].pc # "idle" }

\* C19: any two calls of create_correlation_id return different ids, each a
\* string of 8 characters.
C19_CorrelationIdsDiffer ==
  /\ \A r \in Started :
       /\ requests[r].correlation_id.t = "str"
       /\ Len(requests[r].correlation_id.v) = 8
  /\ \A r1, r2 \in Started :
       r1 # r2 => requests[r1].correlation_id # requests[r2].correlation_id

\* The lines of the log that were emitted for the call r.
LinesOf(r) == SelectSeq(log, LAMBDA record : record.call = r)

\* The kinds of line _make_request emits.
LineKinds ==
  { <<"H","T","T","P"," ","R","e","q","u","e","s","t",":"," ">>, <<"H","T","T","P"," ","R","e","s","p","o","n","s","e",":"," ">>, <<"S","E","C","U","R","I","T","Y","_","E","V","E","N","T",":"," ">>, <<"E","r","r","o","r",":"," ">> }

\* The line is '[id] ' followed by a line of one of the kinds.
Correlated(line, id) ==
  /\ id.t = "str"
  /\ StartsWith(line, <<"[">> \o id.v \o <<"]"," ">>)
  /\ \E kind \in LineKinds :
       StartsWith(Rest(line, <<"[">> \o id.v \o <<"]"," ">>), kind)

\* C20: every line emitted for one call of _make_request (request line,
\* response line, security event, transport-error line) begins with
\* '[id] ' for one and the same id, the id the call created when it
\* started: one id has been created per call made, each call has the one
\* of its own creation and none has the creation of an earlier call.
C20_OneCorrelationIdPerCall ==
  /\ Len(uuids) = Cardinality(Started)
  /\ \A r \in Started :
       /\ requests[r].draw \in DOMAIN uuids
       /\ requests[r].correlation_id
            = Str(SubSeq(uuids[requests[r].draw], 1, 8))
       /\ \A q \in Started : q # r => requests[q].draw # requests[r].draw
       /\ LinesOf(r) # <<>>
  /\ \A i \in DOMAIN log :
       /\ log[i].call \in Started
       /\ Correlated(log[i].msg, requests[log[i].call].correlation_id)

\* C20 witness: the first call got a 401 and has emitted its three lines,
\* the request line of the second call among them, each call under its id.
C20_Witness ==
  /\ MaxCalls >= 2
  /\ requests[1].pc = "done"
  /\ requests[1].correlation_id = Str(<<"1","a","2","b","3","c","4","d">>)
  /\ requests[2].correlation_id = Str(<<"5","e","6","f","7","a","8","b">>)
  /\ Len(log) = 4
  /\ log[2].call = 2
  /\ Len(LinesOf(1)) = 3
  /\ StartsWith(LinesOf(1)[1].msg, <<"[","1","a","2","b","3","c","4","d","]"," ","H","T","T","P"," ","R","e","q","u","e","s","t",":"," ">>)
  /\ StartsWith(LinesOf(1)[2].msg, <<"[","1","a","2","b","3","c","4","d","]"," ","H","T","T","P"," ","R","e","s","p","o","n","s","e",":"," ","s","t","a","t","u","s","=","4","0","1">>)
  /\ StartsWith(LinesOf(1)[3].msg,
                <<"[","1","a","2","b","3","c","4","d","]"," ","S","E","C","U","R","I","T","Y","_","E","V","E","N","T",":"," ","A","U","T","H","E","N","T","I","C","A","T","I","O","N","_","F","A","I","L","U","R","E">>)
  /\ StartsWith(log[2].msg, <<"[","5","e","6","f","7","a","8","b","]"," ","H","T","T","P"," ","R","e","q","u","e","s","t",":"," ">>)

----------------------------------------------------------------------------
(* C21: what _make_request gives back.                                     *)

Finished == { r \in Calls : requests[r].pc = "done" }

\* The request sent carries the configured api-version parameter.
CarriesApiVersion(r) ==
  /\ IsDict(requests[r].params)
  /\ HasKey(requests[r].params, <<"a","p","i","-","v","e","r","s","i","o","n">>)
  /\ Get(requests[r].params, <<"a","p","i","-","v","e","r","s","i","o","n">>) = api_version

\* The parts of C21 about failures: a status of 400 or more raises an
\* AzureDevOpsAPIError carrying that status, a transport failure one with
\* no status, and every request sent carries the api-version.
FailuresCarryStatus ==
  /\ \A r \in Started : CarriesApiVersion(r)
  /\ \A r \in Finished :
       IF requests[r].response = None
         THEN requests[r].ret = AzureDevOpsAPIError(None)
         ELSE requests[r].response.status_code.v >= 400
                <=> requests[r].ret
                      = AzureDevOpsAPIError(requests[r].response.status_code)

\* C21: _make_request returns the parsed response body exactly when the
\* status of the response is below 400; for every status of 400 or more it
\* raises an AzureDevOpsAPIError carrying that status and returns no body;
\* on a transport failure it raises an AzureDevOpsAPIError with no status;
\* every request sent carries the configured api-version parameter.
C21_BodyExactlyBelow400 ==
  /\ FailuresCarryStatus
  /\ \A r \in Finished :
       requests[r].response # None =>
         (requests[r].response.status_code.v < 400
            <=> /\ ~Raised(requests[r].ret)
                /\ requests[r].ret = requests[r].response.body)

----------------------------------------------------------------------------
(* C26: the order of the log events of one call of _make_request.          *)

\* The severity and the beginning of each line a call should have emitted
\* so far, in order.
RequestLine == [level |-> "DEBUG", text |-> <<"H","T","T","P"," ","R","e","q","u","e","s","t",":"," ">>]

ResponseLine == [level |-> "DEBUG", text |-> <<"H","T","T","P"," ","R","e","s","p","o","n","s","e",":"," ","s","t","a","t","u","s","=">>]

AuthenticationFailure ==
  [level |-> "WARNING", text |-> <<"S","E","C","U","R","I","T","Y","_","E","V","E","N","T",":"," ","A","U","T","H","E","N","T","I","C","A","T","I","O","N","_","F","A","I","L","U","R","E"," ","|"," ">>]

AuthorizationFailure ==
  [level |-> "WARNING", text |-> <<"S","E","C","U","R","I","T","Y","_","E","V","E","N","T",":"," ","A","U","T","H","O","R","I","Z","A","T","I","O","N","_","F","A","I","L","U","R","E"," ","|"," ">>]

ErrorLine == [level |-> "ERROR", text |-> <<"E","r","r","o","r",":"," ","H","T","T","P"," ","r","e","q","u","e","s","t"," ","f","a","i","l","e","d"," ","-"," ">>]

ExpectedLines(r) ==
  IF requests[r].pc = "idle" THEN <<>>
  ELSE IF requests[r].pc = "sent" THEN <<RequestLine>>
  ELSE IF requests[r].response = None THEN <<RequestLine, ErrorLine>>
  ELSE IF requests[r].response.status_code.v = 401
    THEN <<RequestLine, ResponseLine, AuthenticationFailure>>
  ELSE IF requests[r].response.status_code.v = 403
    THEN <<RequestLine, ResponseLine, AuthorizationFailure>>
  ELSE <<RequestLine, ResponseLine>>

\* The record is a line of the call r of the given severity and beginning.
IsLine(record, r, expected) ==
  /\ record.level = expected.level
  /\ requests[r].correlation_id.t = "str"
  /\ StartsWith(record.msg,
                <<"[">> \o requests[r].correlation_id.v \o <<"]"," ">>
                  \o expected.text)

\* C26: for each call of _make_request the log events come in a fixed
\* order: the request line is there once the request is sent; when a
\* response has arrived the response line follows, then exactly one
\* security event at warning severity (AUTHENTICATION_FAILURE for 401,
\* AUTHORIZATION_FAILURE for 403, none for another status), and only with
\* all of them emitted is the error raised; on a transport failure exactly
\* one error line follows the request line, with no response line, when
\* the error is raised.
C26_LogEventsInOrder ==
  \A r \in Calls :
    /\ Len(LinesOf(r)) = Len(ExpectedLines(r))
    /\ \A i \in DOMAIN ExpectedLines(r) :
         i \in DOMAIN LinesOf(r) => IsLine(LinesOf(r)[i], r, ExpectedLines(r)[i])
    /\ Raised(requests[r].ret) => requests[r].pc = "done"

\* C26 witness: one call was refused with 403 after its three lines, the
\* other failed in transport after its request line and its error line.
C26_Witness ==
  /\ MaxCalls >= 2
  /\ requests[1].pc = "done" /\ requests[2].pc = "done"
  /\ requests[1].response # None
  /\ requests[1].response.status_code = PyInt(403)
  /\ requests[1].ret = AzureDevOpsAPIError(PyInt(403))
  /\ requests[2].response = None
  /\ requests[2].ret = AzureDevOpsAPIError(None)
  /\ Len(LinesOf(1)) = 3 /\ Len(LinesOf(2)) = 2
  /\ LinesOf(1)[3].level = "WARNING"
  /\ LinesOf(2)[2].level = "ERROR"

----------------------------------------------------------------------------
(* C22: the lookups of one resource.                                       *)

Lookups == { "get_project", "get_variable_group", "get_service_connection" }

\* The fields a resource of each kind always has.
RequiredFields(f) ==
  IF f = "get_project"
    THEN { <<"i","d">>, <<"n","a","m","e">>, <<"u","r","l">>, <<"s","t","a","t","e">>, <<"v","i","s","i","b","i","l","i","t","y">>, <<"l","a","s","t","U","p","d","a","t","e","T","i","m","e">> }
  ELSE IF f = "get_variable_group"
    THEN { <<"i","d">>, <<"n","a","m","e">>, <<"t","y","p","e">>, <<"c","r","e","a","t","e","d","B","y">>, <<"c","r","e","a","t","e","d","O","n">>,
           <<"m","o","d","i","f","i","e","d","B","y">>, <<"m","o","d","i","f","i","e","d","O","n">> }
  ELSE { <<"i","d">>, <<"n","a","m","e">> }

RecordKind(f) ==
  IF f = "get_project" THEN "Project"
  ELSE IF f = "get_variable_group" THEN "VariableGroup"
  ELSE "ServiceConnection"

\* The request succeeded, with the resource as its body.
Succeeded(f, response) ==
  /\ ~Raised(response)
  /\ IsDict(response)
  /\ \A key \in RequiredFields(f) : HasKey(response, key)

IsAPIError(response) ==
  Raised(response) /\ response.exc = "AzureDevOpsAPIError"

\* C22: get_project, get_variable_group and get_service_connection return
\* None exactly when the request fails with status 404, return the mapped
\* record when the request succeeds, and let every other
\* AzureDevOpsAPIError propagate.
C22_NoneExactlyOn404 ==
  \A f \in Lookups :
    Returned(f) =>
      /\ ret = None
            <=> IsAPIError(args.response) /\ args.response.status_code = PyInt(404)
      /\ Succeeded(f, args.response) =>
            /\ ~Raised(ret)
            /\ ret.t = RecordKind(f)
            /\ ret.id = Get(args.response, <<"i","d">>)
            /\ ret.name = Get(args.response, <<"n","a","m","e">>)
      /\ IsAPIError(args.response) /\ args.response.status_code # PyInt(404)
            => ret = args.response

\* C22 witness: the lookup of a service connection that is not there
\* returned None.
C22_Witness ==
  /\ Returned("get_service_connection")
  /\ args.response = AzureDevOpsAPIError(PyInt(404))
  /\ ret = None

----------------------------------------------------------------------------
(* C24: the variables in the payload of get_variable_group_details.        *)

\* The call returned a payload.
Payload(f) ==
  /\ Returned(f)
  /\ IsDict(ret)
  /\ HasKey(ret, <<"s","u","c","c","e","s","s">>) /\ Get(ret, <<"s","u","c","c","e","s","s">>) = Bool(TRUE)
  /\ HasKey(ret, <<"d","a","t","a">>)

\* The variables the API sent for the group.
StoredVariables == get(args.group_response, <<"v","a","r","i","a","b","l","e","s">>, Dict(<<>>))

MarkedSecret(var_data) == get(var_data, <<"i","s","S","e","c","r","e","t">>, Bool(FALSE)) = Bool(TRUE)

\* C24: in the payload of get_variable_group_details every variable marked
\* is_secret has the value "[SECRET]", never the stored value, and every
\* variable not marked has its stored value.
C24_SecretVariablesMasked ==
  Payload("get_variable_group_details") =>
    LET shown == Get(Get(ret, <<"d","a","t","a">>), <<"v","a","r","i","a","b","l","e","s">>)
    IN  /\ IsDict(shown)
        /\ Len(shown.v) = Len(StoredVariables.v)
        /\ \A i \in DOMAIN StoredVariables.v :
             LET variable == StoredVariables.v[i].k
                 var_data == StoredVariables.v[i].v
             IN  /\ HasKey(shown, variable)
                 /\ IsDict(Get(shown, variable))
                 /\ HasKey(Get(shown, variable), <<"v","a","l","u","e">>)
                 /\ IF MarkedSecret(var_data)
                      THEN /\ Get(Get(shown, variable), <<"v","a","l","u","e">>) = Str(<<"[","S","E","C","R","E","T","]">>)
                           /\ Get(Get(shown, variable), <<"i","s","_","s","e","c","r","e","t">>) = Bool(TRUE)
                      ELSE Get(Get(shown, variable), <<"v","a","l","u","e">>)
                             = get(var_data, <<"v","a","l","u","e">>, None)

\* C24 witness: a group whose secret variable came with its stored value
\* was returned with that value masked and the plain variable as stored.
C24_Witness ==
  /\ Payload("get_variable_group_details")
  /\ HasKey(StoredVariables, <<"d","b","p","a","s","s">>)
  /\ Get(Get(StoredVariables, <<"d","b","p","a","s","s">>), <<"v","a","l","u","e">>) = Str(storedsecret)
  /\ Get(Get(Get(Get(ret, <<"d","a","t","a">>), <<"v","a","r","i","a","b","l","e","s">>), <<"d","b","p","a","s","s">>), <<"v","a","l","u","e">>)
       = Str(<<"[","S","E","C","R","E","T","]">>)
  /\ Get(Get(Get(Get(ret, <<"d","a","t","a">>), <<"v","a","r","i","a","b","l","e","s">>), <<"r","e","g","i","o","n">>), <<"v","a","l","u","e">>)
       = Str(<<"w","e","s","t">>)

----------------------------------------------------------------------------
(* C25: the redaction in the payload of get_service_connection_details.    *)

\* Every key of the stored mapping that the classifier finds sensitive
\* shows a placeholder.
ClassifiedKeysRedacted(stored, shown) ==
  /\ IsDict(shown)
  /\ \A i \in DOMAIN stored.v :
       is_sensitive_key(stored.v[i].k) =>
         /\ HasKey(shown, stored.v[i].k)
         /\ Get(shown, stored.v[i].k) \in { REDACTED, FILTERED }

\* C25: the payload of get_service_connection_details redacts at least
\* what the classifier would: every key of the authorization parameters
\* and of the data mapping that is_sensitive_key finds sensitive shows a
\* placeholder instead of its value.
C25_RedactsWhatClassifierWould ==
  Payload("get_service_connection_details") =>
    /\ ClassifiedKeysRedacted(
         get(get(args.connection_response, <<"a","u","t","h","o","r","i","z","a","t","i","o","n">>, Dict(<<>>)),
             <<"p","a","r","a","m","e","t","e","r","s">>, Dict(<<>>)),
         Get(Get(Get(ret, <<"d","a","t","a">>), <<"a","u","t","h","o","r","i","z","a","t","i","o","n">>), <<"p","a","r","a","m","e","t","e","r","s">>))
    /\ ClassifiedKeysRedacted(
         get(args.connection_response, <<"d","a","t","a">>, Dict(<<>>)),
         Get(Get(ret, <<"d","a","t","a">>), <<"d","a","t","a">>))

----------------------------------------------------------------------------
(* C28: what _call_tool returns.                                           *)

\* The request names a known tool and carries the arguments it needs.
WellFormedRequest ==
  /\ args.tool_name \in ToolNames
  /\ IsDict(args.arguments)
  /\ \A i \in DOMAIN subscripted(args.tool_name) :
       HasKey(args.arguments, subscripted(args.tool_name)[i])

ServiceSucceeded == Get(args.result, <<"s","u","c","c","e","s","s">>) = Bool(TRUE)

\* C28: with the client initialized, a known tool name and a service that
\* returns a success, _call_tool returns a result with isError false; it
\* returns isError true only when the client is not initialized, the tool
\* is unknown or the operation failed.
C28_SuccessIsNoError ==
  Returned("_call_tool") =>
    /\ args.client /\ WellFormedRequest /\ ServiceSucceeded
         => ret.isError = FALSE
    /\ ret.isError = TRUE
         => ~args.client \/ ~WellFormedRequest \/ ~ServiceSucceeded

----------------------------------------------------------------------------
(* C23: the tools of fastmcp_server never raise.                           *)

ToolsDone == { t \in ToolCalls : tools[t].pc = "done" }

\* C23: each of the four tools always returns a dict with a boolean
\* 'success' and never raises, whatever fails (an exception of the
\* service, a failed result of the service, a failure of the lazy
\* initialization); on a failure 'success' is false and an 'error' text is
\* present.
C23_ToolsAlwaysReturnDict ==
  \A t \in ToolsDone :
    /\ ~Raised(tools[t].ret)
    /\ IsDict(tools[t].ret)
    /\ HasKey(tools[t].ret, <<"s","u","c","c","e","s","s">>)
    /\ Get(tools[t].ret, <<"s","u","c","c","e","s","s">>) \in { Bool(TRUE), Bool(FALSE) }
    /\ Get(tools[t].ret, <<"s","u","c","c","e","s","s">>) = Bool(FALSE)
         => /\ HasKey(tools[t].ret, <<"e","r","r","o","r">>)
            /\ Get(tools[t].ret, <<"e","r","r","o","r">>).t = "str"

\* The part of C23 about the service: once the service method has been
\* called, the tool returns such a dict.
ToolsReturnDictAfterService ==
  \A t \in ToolsDone :
    ~Raised(tools[t].ret) =>
      /\ IsDict(tools[t].ret)
      /\ HasKey(tools[t].ret, <<"s","u","c","c","e","s","s">>)
      /\ Get(tools[t].ret, <<"s","u","c","c","e","s","s">>) \in { Bool(TRUE), Bool(FALSE) }
      /\ Get(tools[t].ret, <<"s","u","c","c","e","s","s">>) = Bool(FALSE)
           => /\ HasKey(tools[t].ret, <<"e","r","r","o","r">>)
              /\ Get(tools[t].ret, <<"e","r","r","o","r">>).t = "str"

----------------------------------------------------------------------------
(* C29: the lazy initialization under concurrent tool calls.               *)

Reached == { t \in ToolCalls : tools[t].used # None }

\* C29: under any interleaving of concurrent tool calls that start with the
\* globals unset, initialize_services completes successfully at most once,
\* the client and the two services are always all unset or all set
\* together, and every tool call that reaches a service uses the same
\* client and service instances.
C29_InitializedAtMostOnce ==
  /\ Cardinality({ i \in DOMAIN inits : inits[i] = "Config" }) <= 1
  /\ \/ services = NoServices
     \/ /\ services.client # None
        /\ services.variable_group_service # None
        /\ services.service_connection_service # None
        /\ services.variable_group_service.client = services.client
        /\ services.service_connection_service.client = services.client
  /\ \A t \in Reached :
       /\ tools[t].used = services[service_of(tools[t].tool)]
       /\ tools[t].used.client = services.client
  /\ \A t1, t2 \in Reached :
       /\ tools[t1].used.client = tools[t2].used.client
       /\ service_of(tools[t1].tool) = service_of(tools[t2].tool)
            => tools[t1].used = tools[t2].used

\* C29 witness: two calls are in flight at once, one in each service, on
\* the instances of the one initialization.
C29_Witness ==
  /\ MaxToolCalls >= 2
  /\ inits = <<"Config">>
  /\ tools[1].pc = "awaiting" /\ tools[1].tool = "list_variable_groups"
  /\ tools[2].pc = "awaiting" /\ tools[2].tool = "get_service_connection"
  /\ tools[1].used.client = tools[2].used.client
  /\ tools[1].used.client = services.client

----------------------------------------------------------------------------
(* C27: the HTTP clients one AzureDevOpsClient creates.                    *)

Open == { c \in DOMAIN http_clients : http_clients[c] = "open" }

\* C27: after any sequence of __aenter__, _make_request, close and
\* __aexit__ on one client, every HTTP client created is either the one
\* currently held or has been closed (none is replaced or dropped while
\* open), and once close or __aexit__ has left no client held none remains
\* open.
C27_NoClientLeftOpen ==
  /\ \A c \in Open : held = c
  /\ held = 0 => Open = {}

----------------------------------------------------------------------------
(* C30: the functions leave their arguments as they are.                   *)

TasksDone == { t \in Tasks : tasks[t].pc = "done" }

\* The objects of the caller are as they were before the calls.
InputUnchanged == \A object \in DOMAIN args.heap : heap[object] = args.heap[object]

\* What the call of f gives when it is the only call made.
Alone(f) == invoke(f, args.heap)

\* The value-level definition of each function gives the same result on
\* the value of the mapping.
ValueOf(f) ==
  LET data == deref(args.heap, Ref(1))
      url == Str(<<"h","t","t","p","s",":","/","/","x","/","y","?","a","p","i","_","k","e","y","=">> \o urlsecret)
  IN  IF f = "filter_sensitive_dict"
        THEN [ret |-> filter_sensitive_dict(data, FILTERED, TRUE), emit |-> <<>>]
      ELSE IF f = "filter_sensitive_dict_shallow"
        THEN [ret |-> filter_sensitive_dict(data, FILTERED, FALSE), emit |-> <<>>]
      ELSE IF f = "filter_url_params"
        THEN [ret |-> filter_url_params(url, FILTERED), emit |-> <<>>]
      ELSE IF f = "debug_request"
        THEN debug_request(Str(<<"G","E","T">>), url, data, data, data, Str(<<"t","e","s","t","1","2","3">>))
      ELSE IF f = "error_with_context"
        THEN error_with_context(Str(<<"T","e","s","t"," ","e","r","r","o","r">>), RequestError,
                                Str(<<"t","e","s","t","1","2","3">>), data)
      ELSE IF f = "info_with_context"
        THEN info_with_context(Str(<<"T","e","s","t">>), Str(<<"t","e","s","t","1","2","3">>), data)
      ELSE security_event(Str(<<"A","U","T","H","_","F","A","I","L","U","R","E">>), Str(<<"I","n","v","a","l","i","d"," ","c","r","e","d","e","n","t","i","a","l","s">>),
                          Str(<<"W","A","R","N","I","N","G">>), Str(<<"t","e","s","t","1","2","3">>), data)

\* C30: filter_sensitive_dict, filter_url_params and the logger methods
\* never modify what is passed to them: the mapping, its nested mappings
\* and sequences, and the context are after the calls as they were before;
\* so each of the invocations that share an input gives the result it
\* gives when run alone.
C30_InputsUnchanged ==
  /\ InputUnchanged
  /\ \A t \in TasksDone :
       /\ deref(heap, tasks[t].ret)
            = deref(Alone(tasks[t].fn).heap, Alone(tasks[t].fn).ret)
       /\ tasks[t].emit = Alone(tasks[t].fn).emit
       /\ deref(heap, tasks[t].ret) = ValueOf(tasks[t].fn).ret
       /\ tasks[t].emit = ValueOf(tasks[t].fn).emit

\* C30 witness: the mapping with a nested mapping and a sequence has been
\* redacted by one call and logged by another; the redacted copy differs
\* from the mapping, which is as it was.
C30_Witness ==
  /\ MaxTasks >= 2
  /\ Len(args.heap) = 4
  /\ tasks[1].pc = "done" /\ tasks[1].fn = "filter_sensitive_dict"
  /\ tasks[2].pc = "done" /\ tasks[2].fn = "debug_request"
  /\ deref(heap, tasks[1].ret) # deref(heap, Ref(1))
  /\ Get(deref(heap, tasks[1].ret), password) = FILTERED
  /\ Get(deref(heap, Ref(1)), password) = Str(bodysecret)
  /\ Len(tasks[2].emit) = 1

====
